---- MODULE Spec2Model ----
(***************************************************************************)
(* Model of reliability-guardrails: the policy-matching decision engine   *)
(* (decision/decision_engine.py), the reliability evaluator               *)
(* (slo/slo_engine.py), the cost evaluator (cost/cost_collector.py) and   *)
(* the gate they form: engines constructed over stored inputs, called     *)
(* any number of times, while the stored inputs change.                   *)
(*                                                                         *)
(* Python values that take part in policy comparisons are tagged with     *)
(* their run-time type, because the comparison operators of _matches      *)
(* raise TypeError on operands of unorderable types: [t |-> "num"] for    *)
(* int, float and bool (bool is a subtype of int: True == 1), "str",      *)
(* "list" (only membership is ever asked of it, so v is a set) and        *)
(* "none".  Percentages are integers in fixed units: error_budget_pct in  *)
(* hundredths of a percent (it is rounded to 2 decimals), availability    *)
(* in millionths of a percent (it is rounded to 6 decimals), money in     *)
(* cents and wow_change_pct and budget_utilisation_pct in hundredths of a *)
(* percent.                                                                *)
(***************************************************************************)
EXTENDS Integers, Sequences, FiniteSets, TLC

VARIABLES
    policies_yaml,   \* the "policies" list of policies.yaml, in declaration order
    policies,        \* DecisionEngine.policies
    slo_r,           \* what self._slo.evaluate() returns to the decision engine
    cost_r,          \* what self._cost.evaluate() returns to the decision engine
    decision,        \* the outcome of DecisionEngine.evaluate()
    exit_status,     \* the exit code main() terminated with
    m_policy,        \* _matches: its policy argument
    m_signals,       \* _matches: its signals argument
    m_result,        \* _matches: its outcome
    slo_config,      \* SLOEngine.config
    slo_metrics,     \* SLOEngine.metrics
    slo_result,      \* the outcome of SLOEngine.evaluate()
    cost_env,        \* WARN_SPIKE_PCT and BLOCK_SPIKE_PCT as read at import
    cost_data,       \* CostCollector.data
    cost_result,     \* the outcome of CostCollector.evaluate()
    metrics_file,    \* metrics.json as stored
    cost_file,       \* cost.json as stored
    loaded_at,       \* history: the stored inputs as the constructors read them
    reported,        \* the decision DecisionEngine.report() formats
    calls,           \* the calls made on the instances, in order
    returned,        \* history: the results as the first evaluate() returned them
    later,           \* the results of the evaluate() calls made after that
    utc_day,         \* the UTC date datetime.now(tz=timezone.utc) gives
    audit_files,     \* log_dir: the content of decisions-<day>.jsonl, by day
    audit_thread,    \* each thread's place in AuditLog.write, its record, its path
    written,         \* history: the write() calls that have returned, in order
    read_result,     \* what AuditLog.read_today() returned
    threads,         \* the threads that use the audit log
    log_dir_writable,\* whether AuditLog().write can append to the audit log
    handled,         \* history: the POST /api/simulate requests handled
    audit_trail      \* the decisions api_simulate wrote to the audit log

vars == <<policies_yaml, policies, slo_r, cost_r, decision, exit_status,
          m_policy, m_signals, m_result, slo_config, slo_metrics, slo_result,
          cost_env, cost_data, cost_result,
          metrics_file, cost_file, loaded_at, reported, calls,
          returned, later,
          utc_day, audit_files, audit_thread, written, read_result, threads,
          log_dir_writable, handled, audit_trail>>

decisionVars == <<policies_yaml, policies, slo_r, cost_r, decision, exit_status>>
matchVars == <<m_policy, m_signals, m_result>>
sloVars == <<slo_config, slo_metrics, slo_result>>
costVars == <<cost_env, cost_data, cost_result>>
gateVars == <<metrics_file, cost_file, loaded_at, reported, calls>>
aliasVars == <<returned, later>>
auditVars == <<utc_day, audit_files, audit_thread, written, read_result, threads>>
simulateVars == <<log_dir_writable, handled, audit_trail>>

----------------------------------------------------------------------------
(* Python values *)

Num(n) == [t |-> "num", v |-> n]
Str(s) == [t |-> "str", v |-> s]
Lst(S) == [t |-> "list", v |-> S]
None == [t |-> "none", v |-> 0]
Bool(b) == Num(IF b THEN 1 ELSE 0)

\* Python's order on the strings the model uses (code-point lexicographic).
StrRank(s) ==
    CASE s = "critical" -> 1
      [] s = "high"     -> 2
      [] s = "low"      -> 3
      [] s = "medium"   -> 4
      [] s = "rising"   -> 5
      [] s = "spiking"  -> 6
      [] s = "stable"   -> 7

\* a == b : never raises; values of different types are unequal.
PyEq(a, b) == a.t = b.t /\ a.v = b.v

\* Whether a < b (and so a <= b, a > b, a >= b) is defined; otherwise TypeError.
Orderable(a, b) == a.t = b.t /\ a.t \in {"num", "str"}

PyLt(a, b) == IF a.t = "num" THEN a.v < b.v ELSE StrRank(a.v) < StrRank(b.v)

\* Whether `a in b` is defined: b a list, or a and b both strings.
Containable(a, b) == b.t = "list" \/ (a.t = "str" /\ b.t = "str")

\* a in b.  No string of the model is a proper substring of another, so the
\* substring test on two strings is their equality.
PyIn(a, b) == IF b.t = "list" THEN \E e \in b.v : PyEq(a, e) ELSE a.v = b.v

----------------------------------------------------------------------------
(* dict.get *)

Get(d, k, default) == IF k \in DOMAIN d THEN d[k] ELSE default

----------------------------------------------------------------------------
(* DecisionEngine._matches, decision_engine.py:121-142 *)

\* Mutant: lte compares with < .
CompareLteStrict(op, value, target) ==
    CASE op \in {"lt", "lte", "gt", "gte"} ->
            IF ~Orderable(value, target) THEN "TypeError"
            ELSE IF (CASE op = "lt"  -> PyLt(value, target)
                       [] op = "lte" -> PyLt(value, target)
                       [] op = "gt"  -> PyLt(target, value)
                       [] op = "gte" -> ~PyLt(value, target))
                 THEN "pass" ELSE "False"
      [] op = "eq"  -> IF PyEq(value, target) THEN "pass" ELSE "False"
      [] op = "neq" -> IF ~PyEq(value, target) THEN "pass" ELSE "False"
      [] op = "in"  ->
            IF ~Containable(value, target) THEN "TypeError"
            ELSE IF PyIn(value, target) THEN "pass" ELSE "False"
      [] OTHER -> "pass"

\* Mutant: an operator outside the seven names fails the condition.
CompareRejectsUnknown(op, value, target) ==
    CASE op \in {"lt", "lte", "gt", "gte"} ->
            IF ~Orderable(value, target) THEN "TypeError"
            ELSE IF (CASE op = "lt"  -> PyLt(value, target)
                       [] op = "lte" -> ~PyLt(target, value)
                       [] op = "gt"  -> PyLt(target, value)
                       [] op = "gte" -> ~PyLt(value, target))
                 THEN "pass" ELSE "False"
      [] op = "eq"  -> IF PyEq(value, target) THEN "pass" ELSE "False"
      [] op = "neq" -> IF ~PyEq(value, target) THEN "pass" ELSE "False"
      [] op = "in"  ->
            IF ~Containable(value, target) THEN "TypeError"
            ELSE IF PyIn(value, target) THEN "pass" ELSE "False"
      [] OTHER -> "False"

\* The comparison one condition performs, lines 131-140: "pass" when the
\* condition does not return False (an operator outside the seven names
\* performs no comparison at all), "False" when it returns False, "TypeError"
\* when the comparison raises.
Compare(op, value, target) ==
    CASE op \in {"lt", "lte", "gt", "gte"} ->
            IF ~Orderable(value, target) THEN "TypeError"
            ELSE IF (CASE op = "lt"  -> PyLt(value, target)
                       [] op = "lte" -> ~PyLt(target, value)
                       [] op = "gt"  -> PyLt(target, value)
                       [] op = "gte" -> ~PyLt(value, target))
                 THEN "pass" ELSE "False"
      [] op = "eq"  -> IF PyEq(value, target) THEN "pass" ELSE "False"
      [] op = "neq" -> IF ~PyEq(value, target) THEN "pass" ELSE "False"
      [] op = "in"  ->
            IF ~Containable(value, target) THEN "TypeError"
            ELSE IF PyIn(value, target) THEN "pass" ELSE "False"
      [] OTHER -> "pass"

\* Mutant: no `value is None` guard, the comparison is made on None.
ConditionUnguarded(key, rule, signals) ==
    Compare(Get(rule, "operator", "eq"), Get(signals, key, None), Get(rule, "value", None))

\* One iteration of the loop over conditions.items(), lines 127-140.
Condition(key, rule, signals) ==
    LET value == Get(signals, key, None) IN
    IF value.t = "none" THEN "False"
    ELSE Compare(Get(rule, "operator", "eq"), value, Get(rule, "value", None))

\* The loop from the i-th condition on: "True", "False" or "TypeError".
RECURSIVE MatchFrom(_, _, _)
MatchFrom(conditions, i, signals) ==
    IF i > Len(conditions) THEN "True"
    ELSE LET r == Condition(conditions[i].key, conditions[i].rule, signals) IN
         IF r = "pass" THEN MatchFrom(conditions, i + 1, signals) ELSE r

matches(policy, signals) ==
    LET conditions == Get(policy, "conditions", <<>>) IN
    IF conditions = <<>> THEN "True" ELSE MatchFrom(conditions, 1, signals)

----------------------------------------------------------------------------
(* DecisionEngine._load_policies, decision_engine.py:94-98 *)

priority_key(p) == Get(p, "priority", 99)

\* sorted() is stable: p goes after every element whose key is <= its own.
RECURSIVE InsertByKey(_, _)
InsertByKey(sorted, p) ==
    IF sorted = <<>> THEN <<p>>
    ELSE IF priority_key(Head(sorted)) <= priority_key(p)
         THEN <<Head(sorted)>> \o InsertByKey(Tail(sorted), p)
         ELSE <<p>> \o sorted

RECURSIVE SortedFrom(_, _, _)
SortedFrom(list, i, acc) ==
    IF i > Len(list) THEN acc
    ELSE SortedFrom(list, i + 1, InsertByKey(acc, list[i]))

\* Mutant: the list is kept in declaration order.
load_policies_unsorted(data) == data

load_policies(data) == SortedFrom(data, 1, <<>>)

----------------------------------------------------------------------------
(* DecisionEngine._collect_signals, decision_engine.py:102-117 *)

collect_signals(slo, cost) ==
    [error_budget_pct    |-> Num(slo.error_budget_pct),
     burn_rate           |-> Str(slo.burn_rate),
     availability_pct    |-> Num(slo.availability_pct),
     latency_compliant   |-> Bool(slo.latency_compliant),
     cost_spike_pct      |-> Num(cost.wow_change_pct),
     cost_spike_detected |-> Bool(cost.spike_detected),
     cost_trend          |-> Str(cost.trend)]

----------------------------------------------------------------------------
(* DecisionEngine.evaluate, decision_engine.py:144-184 *)

NoDecision == [status |-> "none"]
Raised == [status |-> "TypeError"]

\* Mutant: the fallback blocks.
FallbackBlocks ==
    [id |-> "P-FALLBACK", name |-> "Fallback block", action |-> "BLOCK",
     priority |-> 999,
     reason |-> "No matching policy found - defaulting to BLOCK",
     remediation |-> "Review your policies.yaml configuration.",
     delay_minutes |-> 0]

\* The synthesized policy of lines 166-172.
FallbackPolicy ==
    [id |-> "P-FALLBACK", name |-> "Fallback allow", action |-> "ALLOW",
     priority |-> 999,
     reason |-> "No matching policy found - defaulting to ALLOW",
     remediation |-> "Review your policies.yaml configuration.",
     delay_minutes |-> 0]

\* The trace entry appended at lines 155-160.
TraceEntry(policy, matched) ==
    [id |-> policy.id, name |-> policy.name, matched |-> matched,
     action |-> policy.action]

\* Mutant: the loop stops at the first match.
RECURSIVE PolicyLoopBreaks(_, _, _, _)
PolicyLoopBreaks(pols, signals, i, st) ==
    IF i > Len(pols) \/ st.matched_policy # 0 THEN st
    ELSE LET m == matches(pols[i], signals) IN
         IF m = "TypeError" THEN [st EXCEPT !.raised = TRUE]
         ELSE PolicyLoopBreaks(pols, signals, i + 1,
                [st EXCEPT
                   !.evaluated = Append(@, [id |-> pols[i].id, name |-> pols[i].name,
                                            matched |-> (m = "True"),
                                            action |-> pols[i].action]),
                   !.matched_policy = IF m = "True" THEN i ELSE @])

\* The loop of lines 153-162 from the i-th policy on; st carries `evaluated`
\* and `matched_policy` (index 0 for None).  A TypeError raised by _matches
\* leaves the loop and evaluate().
RECURSIVE PolicyLoop(_, _, _, _)
PolicyLoop(pols, signals, i, st) ==
    IF i > Len(pols) THEN st
    ELSE LET m == matches(pols[i], signals) IN
         IF m = "TypeError" THEN [st EXCEPT !.raised = TRUE]
         ELSE PolicyLoop(pols, signals, i + 1,
                [st EXCEPT
                   !.evaluated = Append(@, TraceEntry(pols[i], m = "True")),
                   !.matched_policy =
                       IF m = "True" /\ @ = 0 THEN i ELSE @])

DecisionResult(matched_policy, slo, cost, evaluated) ==
    [status             |-> "ok",
     action             |-> matched_policy.action,
     policy_id          |-> matched_policy.id,
     policy_name        |-> matched_policy.name,
     reason             |-> matched_policy.reason,
     remediation        |-> matched_policy.remediation,
     delay_minutes      |-> Get(matched_policy, "delay_minutes", 0),
     slo                |-> slo,
     cost               |-> cost,
     evaluated_policies |-> evaluated]

DecisionEngine_evaluate(pols, slo, cost) ==
    LET signals == collect_signals(slo, cost)
        st == PolicyLoop(pols, signals, 1,
                 [evaluated |-> <<>>, matched_policy |-> 0, raised |-> FALSE])
    IN  IF st.raised THEN Raised
        ELSE DecisionResult(
                 IF st.matched_policy = 0 THEN FallbackPolicy
                 ELSE pols[st.matched_policy],
                 slo, cost, st.evaluated)

\* Mutant: WARN exits 1.
exit_code_warn_fails(action) ==
    CASE action = "ALLOW" -> 0
      [] action = "WARN"  -> 1
      [] action = "DELAY" -> 1
      [] action = "BLOCK" -> 2
      [] OTHER -> 2

\* DecisionResult.exit_code, decision_engine.py:71-73
exit_code(action) ==
    CASE action = "ALLOW" -> 0
      [] action = "WARN"  -> 0
      [] action = "DELAY" -> 1
      [] action = "BLOCK" -> 2
      [] OTHER -> 2

----------------------------------------------------------------------------
(* Arithmetic of the reliability evaluator.  Percentages are exact          *)
(* fixed-point integers; round(x, n) is round-half-even on the exact value. *)

\* floor(a * 10^k / b) and its remainder, by long division (no product
\* larger than 10 * b is formed).
RECURSIVE LongDiv(_, _, _, _)
LongDiv(q, r, b, k) ==
    IF k = 0 THEN [q |-> q, r |-> r]
    ELSE LongDiv(q * 10 + ((r * 10) \div b), (r * 10) % b, b, k - 1)

\* round(a / b, k) in units of 10^-k, for b > 0: the integer nearest to
\* a * 10^k / b, the even one of two equally near.
Round(a, b, k) ==
    LET d == LongDiv(a \div b, a % b, b, k) IN
    IF 2 * d.r > b \/ (2 * d.r = b /\ d.q % 2 = 1) THEN d.q + 1 ELSE d.q

Max(a, b) == IF a >= b THEN a ELSE b
Min(a, b) == IF a <= b THEN a ELSE b

RECURSIVE Sum(_)
Sum(seq) == IF seq = <<>> THEN 0 ELSE Head(seq) + Sum(Tail(seq))

\* p percent in millionths of a percent.
Micro(p) == p * 1000000

----------------------------------------------------------------------------
(* SLOEngine.evaluate, slo_engine.py:110-177 *)

\* Mutant: no requests count as no availability.
availability_pct_zero_when_idle(total, failed) ==
    LET success == Max(0, total - failed) IN
    IF total > 0 THEN Round(success, total, 8) ELSE 0

\* Lines 116-119: availability in millionths of a percent.
availability_pct(total, failed) ==
    LET success == Max(0, total - failed) IN
    IF total > 0 THEN Round(success, total, 8) ELSE Micro(100)

\* Mutant: the budget left is not clamped at 0.
error_budget_pct_unclamped(allowed, actual, failed) ==
    IF allowed > 0
    THEN Round(allowed - actual, allowed, 4)
    ELSE IF failed > 0 THEN 0 ELSE 10000

\* Lines 121-131: the budget left, in hundredths of a percent.  allowed and
\* actual are allowed_fail_pct and actual_fail_pct in millionths of a percent.
\* max(0.0, 100.0 - consumed_pct) is 0 once actual >= allowed and
\* 100 * (allowed - actual) / allowed below that.
error_budget_pct(allowed, actual, failed) ==
    IF allowed > 0
    THEN IF actual >= allowed THEN 0
         ELSE Round(allowed - actual, allowed, 4)
    ELSE IF failed > 0 THEN 0 ELSE 10000

\* Mutant: the label follows the numeric burn alone.
burn_label_by_burn_only(recent_sum, n, budget, thr) ==
    IF recent_sum >= thr.critical * n THEN "critical"
    ELSE IF recent_sum >= thr.high * n THEN "high"
    ELSE IF recent_sum >= thr.medium * n THEN "medium"
    ELSE "low"

\* Lines 142-149; burn samples and thresholds in tenths, n the number of
\* samples in recent_sum, budget in hundredths of a percent.
burn_label(recent_sum, n, budget, thr) ==
    IF recent_sum >= thr.critical * n \/ budget < 1000 THEN "critical"
    ELSE IF recent_sum >= thr.high * n \/ budget < 2000 THEN "high"
    ELSE IF recent_sum >= thr.medium * n \/ budget < 5000 THEN "medium"
    ELSE "low"

\* Lines 138-140 with the defaults of burn_cfg.get.
burn_thresholds(config) ==
    LET burn_cfg == Get(Get(config, "burn_rate", [thresholds |-> <<>>]), "thresholds", <<>>) IN
    [critical |-> Get(burn_cfg, "critical", 100),
     high     |-> Get(burn_cfg, "high", 50),
     medium   |-> Get(burn_cfg, "medium", 20)]

\* SLOResult.healthy, slo_engine.py:51-58
healthy(r) ==
    /\ r.availability_compliant
    /\ r.latency_compliant
    /\ r.error_budget_pct >= 2000
    /\ r.burn_rate \in {"low", "medium"}

NoSloResult == [status |-> "none"]

SLOEngine_evaluate(config, metrics) ==
    IF ~({"total_requests", "failed_requests"} \subseteq DOMAIN metrics)
    THEN [status |-> "KeyError"]
    ELSE
    LET total  == metrics.total_requests
        failed == metrics.failed_requests
        availability == availability_pct(total, failed)
        target == config.slos.availability.target
        allowed_fail_pct == Micro(100) - target
        actual_fail_pct == Micro(100) - availability
        budget == error_budget_pct(allowed_fail_pct, actual_fail_pct, failed)
        hourly_rates == Get(metrics, "hourly_burn_rate", <<10>>)
        n == Len(hourly_rates)
        recent == SubSeq(hourly_rates, Max(1, n - 2), n)
        thr == burn_thresholds(config)
    IN
    IF n = 0 THEN [status |-> "ZeroDivisionError"]
    ELSE IF ~("latency_percentiles" \in DOMAIN metrics)
            \/ ~("p95_ms" \in DOMAIN metrics.latency_percentiles)
    THEN [status |-> "KeyError"]
    ELSE
    LET lat == metrics.latency_percentiles
        lat_threshold == config.slos.latency.p95_threshold_ms
    IN
    [status                 |-> "ok",
     availability_pct       |-> availability,
     error_budget_pct       |-> budget,
     burn_rate              |-> burn_label(Sum(recent), Min(3, n), budget, thr),
     burn_rate_value        |-> Round(Sum(recent), Min(3, n), 1),
     latency_p95_ms         |-> lat.p95_ms,
     latency_p99_ms         |-> Get(lat, "p99_ms", Get(lat, "p99", lat.p95_ms)),
     latency_compliant      |-> lat.p95_ms <= lat_threshold,
     availability_compliant |-> availability >= target,
     details |->
        [total_requests          |-> total,
         failed_requests         |-> failed,
         availability_target_pct |-> target,
         latency_target_p95_ms   |-> lat_threshold,
         avg_burn_rate           |-> Round(Sum(hourly_rates), n, 1),
         recent_burn_rate        |-> Round(Sum(recent), Min(3, n), 1),
         hourly_burn_rates       |-> hourly_rates,
         service                 |-> Get(metrics, "service", "unknown")]]

----------------------------------------------------------------------------
(* CostCollector.evaluate, cost_collector.py:86-146 *)

\* seq[start:stop] of Python, for integer bounds of either sign.
PySlice(seq, start, stop) ==
    LET n == Len(seq)
        norm(i) == IF i < 0 THEN Max(0, n + i) ELSE Min(i, n)
    IN  SubSeq(seq, norm(start) + 1, norm(stop))

\* sorted(daily, key=lambda d: d["date"]) is stable: d goes after every
\* element whose date is <= its own.  ISO-8601 dates compare as strings the
\* way their day numbers compare.
RECURSIVE InsertByDate(_, _)
InsertByDate(sorted, d) ==
    IF sorted = <<>> THEN <<d>>
    ELSE IF Head(sorted).date <= d.date
         THEN <<Head(sorted)>> \o InsertByDate(Tail(sorted), d)
         ELSE <<d>> \o sorted

RECURSIVE SortedByDateFrom(_, _, _)
SortedByDateFrom(daily, i, acc) ==
    IF i > Len(daily) THEN acc
    ELSE SortedByDateFrom(daily, i + 1, InsertByDate(acc, daily[i]))

\* Mutant: the observations are taken in the order of the file.
sort_by_date_as_given(daily) == daily

\* Line 92.
sort_by_date(daily) == SortedByDateFrom(daily, 1, <<>>)

\* Mutant: the previous window runs to the end of the series.
prev_week_to_end(amounts) ==
    IF Len(amounts) >= 14 THEN PySlice(amounts, -14, Len(amounts))
    ELSE PySlice(amounts, 0, Len(amounts) \div 2)

\* Line 96.
prev_week(amounts) ==
    IF Len(amounts) >= 14 THEN PySlice(amounts, -14, -7)
    ELSE PySlice(amounts, 0, Len(amounts) \div 2)

\* Line 97.
curr_week(amounts) ==
    IF Len(amounts) >= 7 THEN PySlice(amounts, -7, Len(amounts))
    ELSE PySlice(amounts, Len(amounts) \div 2, Len(amounts))

\* round(sum(w) / len(w) if w else 0.0, 2), in cents (lines 99-100, 128-129).
week_avg_usd(w) == IF w = <<>> THEN 0 ELSE Round(Sum(w), Len(w), 0)

\* Mutant: the change is taken against any previous mean but zero.
wow_pct_of_nonzero(prev, curr) ==
    IF prev # <<>> /\ Sum(prev) # 0
    THEN LET base == IF Sum(prev) > 0 THEN Sum(prev) ELSE -Sum(prev) IN
         Round(Sum(curr) * Len(prev) - Sum(prev) * Len(curr),
               base * Len(curr), 4)
    ELSE 0

\* Lines 102-106, in hundredths of a percent.  prev_avg > 0 iff the previous
\* window is not empty and its sum is positive; the current window is not
\* empty then.
wow_pct(prev, curr) ==
    IF prev # <<>> /\ Sum(prev) > 0
    THEN Round(Sum(curr) * Len(prev) - Sum(prev) * Len(curr),
               Sum(prev) * Len(curr), 4)
    ELSE 0

\* Line 112, in hundredths of a percent.
budget_util(mtd, budget) == IF budget > 0 THEN Round(mtd, budget, 4) ELSE 0

\* Mutant: the thresholds are exclusive.
trend_label_exclusive(wow, env) ==
    IF wow > env.block THEN "spiking"
    ELSE IF wow > env.warn THEN "rising"
    ELSE IF wow < -1000 THEN "falling"
    ELSE "stable"

\* Lines 115-122.
trend_label(wow, env) ==
    IF wow >= env.block THEN "spiking"
    ELSE IF wow >= env.warn THEN "rising"
    ELSE IF wow <= -1000 THEN "falling"
    ELSE "stable"

NoCostResult == [status |-> "none"]

CostCollector_evaluate(data, env) ==
    IF ~("daily_costs" \in DOMAIN data) THEN [status |-> "KeyError"]
    ELSE
    LET daily == data.daily_costs
        budget == Get(data, "budget_usd_monthly", 0)
        daily_sorted == sort_by_date(daily)
        amounts == [i \in 1..Len(daily_sorted) |-> daily_sorted[i].cost]
        prev == prev_week(amounts)
        curr == curr_week(amounts)
        wow == wow_pct(prev, curr)
        mtd == Sum(amounts)
    IN
    [status                 |-> "ok",
     service                |-> Get(data, "service", "unknown"),
     current_week_avg_usd   |-> week_avg_usd(curr),
     previous_week_avg_usd  |-> week_avg_usd(prev),
     wow_change_pct         |-> wow,
     trend                  |-> trend_label(wow, env),
     spike_detected         |-> wow >= env.warn,
     budget_usd             |-> budget,
     mtd_spend_usd          |-> mtd,
     budget_utilisation_pct |-> budget_util(mtd, budget),
     daily_costs            |-> PySlice(daily_sorted, -7, Len(daily_sorted)),
     details |->
        [currency        |-> Get(data, "currency", "USD"),
         prev_week_avg   |-> week_avg_usd(prev),
         curr_week_avg   |-> week_avg_usd(curr),
         wow_change_pct  |-> wow,
         cost_breakdown  |-> Get(data, "cost_breakdown", <<>>),
         warn_threshold  |-> env.warn,
         block_threshold |-> env.block]]

----------------------------------------------------------------------------
(* The gate: DecisionEngine over its SLOEngine and CostCollector,          *)
(* decision_engine.py:84-117 and 144-184                                   *)

\* Mutant: evaluate() opens the stored input again.
evaluation_input_reread(loaded, stored) == stored

\* What an evaluate() works on: the attribute its constructor assigned
\* (self.config and self.metrics, slo_engine.py:111-113; self.data,
\* cost_collector.py:87-88; self.policies, decision_engine.py:153),
\* whatever the stored input holds by now.
evaluation_input(loaded, stored) == loaded

\* DecisionEngine.evaluate() from _collect_signals on: the two evaluators
\* are called first, and what either raises leaves evaluate().
engine_evaluate(pols, config, metrics, data, env) ==
    LET slo == SLOEngine_evaluate(config, metrics) IN
    IF slo.status # "ok" THEN [status |-> slo.status]
    ELSE LET cost == CostCollector_evaluate(data, env) IN
         IF cost.status # "ok" THEN [status |-> cost.status]
         ELSE DecisionEngine_evaluate(pols, slo, cost)

----------------------------------------------------------------------------
(* Objects a result shares with the engine that returned it *)

\* details["hourly_burn_rates"] (slo_engine.py:174) is the list that
\* metrics.get returned at line 134: the list self.metrics holds when the key
\* is there, a new [1.0] when it is not.
hourly_rates_is_own(metrics) == "hourly_burn_rate" \in DOMAIN metrics

\* details["cost_breakdown"] (cost_collector.py:142) is the dict self.data
\* holds when the key is there, a new {} when it is not.
cost_breakdown_is_own(data) == "cost_breakdown" \in DOMAIN data

\* self.metrics once the caller has made h of result.details["hourly_burn_rates"].
metrics_after_mutation(metrics, h) ==
    IF hourly_rates_is_own(metrics)
    THEN [k \in DOMAIN metrics |-> IF k = "hourly_burn_rate" THEN h ELSE metrics[k]]
    ELSE metrics

\* self.data once the caller has made b of result.details["cost_breakdown"].
data_after_breakdown_mutation(data, b) ==
    IF cost_breakdown_is_own(data)
    THEN [k \in DOMAIN data |-> IF k = "cost_breakdown" THEN b ELSE data[k]]
    ELSE data

\* self.data once the caller has assigned cost to the "cost" key of the
\* entry of result.daily_costs dated date: sorted() (cost_collector.py:92)
\* and the slice [-7:] (line 136) make new lists of the same dicts.
data_after_entry_mutation(data, date, cost) ==
    [k \in DOMAIN data |->
        IF k = "daily_costs"
        THEN [i \in DOMAIN data.daily_costs |->
                 IF data.daily_costs[i].date = date
                 THEN [data.daily_costs[i] EXCEPT !.cost = cost]
                 ELSE data.daily_costs[i]]
        ELSE data[k]]

----------------------------------------------------------------------------
(* AuditLog, audit_log.py:28-61.  A file is the sequence of the pieces the  *)
(* operating system was handed: a line json.dumps(record) + "\n" reaches    *)
(* the file when the buffered stream of line 46 is flushed at its close,   *)
(* in one OS write ("all") or, after a short write, in two ("head", then    *)
(* "tail", which ends with the newline).  Mode "a" puts every OS write at  *)
(* the end the file has at that moment.  A timestamp is modelled by its    *)
(* UTC date.                                                                *)

NoFile == [exists |-> FALSE, pieces |-> <<>>]

\* Lines 41-44: {"timestamp": ..., **result.to_dict()}; a key of the result
\* named timestamp would replace the timestamp.
audit_record(now, result_dict) == result_dict @@ [timestamp |-> now]

\* Mutant: the file is opened with mode "w".
open_truncating(file) == [exists |-> TRUE, pieces |-> <<>>]

\* path.open("a"), line 46: the file is created when it is not there.
open_appending(file) == [exists |-> TRUE, pieces |-> file.pieces]

Piece(record, part) == [record |-> record, part |-> part]

\* The lines of a file, for line in fh (audit_log.py:57): a line ends with
\* the piece that holds a newline; pieces after the last newline are a last
\* line.
RECURSIVE LinesFrom(_, _, _, _)
LinesFrom(file, i, line, acc) ==
    IF i > Len(file) THEN (IF line = <<>> THEN acc ELSE Append(acc, line))
    ELSE IF file[i].part \in {"all", "tail"}
         THEN LinesFrom(file, i + 1, <<>>, Append(acc, Append(line, file[i])))
         ELSE LinesFrom(file, i + 1, Append(line, file[i]), acc)

\* json.loads(line) succeeds on the text of one record: written whole, or
\* its head followed by its tail.  A line of other pieces is the text of no
\* record.
line_parses(line) ==
    \/ Len(line) = 1 /\ line[1].part = "all"
    \/ /\ Len(line) = 2
       /\ line[1].part = "head" /\ line[2].part = "tail"
       /\ line[1].record = line[2].record

NotRead == [status |-> "none"]

\* read_today, lines 50-61, on day now.
read_today(files, now) ==
    IF ~files[now].exists THEN [status |-> "ok", records |-> <<>>]
    ELSE LET lines == LinesFrom(files[now].pieces, 1, <<>>, <<>>) IN
         IF \A i \in DOMAIN lines : line_parses(lines[i])
         THEN [status |-> "ok",
               records |-> [i \in DOMAIN lines |-> lines[i][1].record]]
         ELSE [status |-> "JSONDecodeError"]

----------------------------------------------------------------------------
(* api_simulate, dashboard/app.py:76-99.  A response is its status code    *)
(* and its JSON body; the explanation text added to the data is left out.  *)

\* The except clause, lines 98-99.
ErrorResponse(error) == [code |-> 500, ok |-> FALSE, error |-> error]

\* Lines 91-97.
DecisionResponse(result) == [code |-> 200, ok |-> TRUE, data |-> result]

\* The handler, lines 82-99: the body is read into overrides (line 83) and
\* not used again; a new DecisionEngine reads the stored files and
\* evaluates; the result is written to the audit log; whatever raises on
\* the way ends in the except clause.
api_simulate(overrides, pols_yaml, config, metrics, data, env, writable) ==
    LET result == engine_evaluate(load_policies(pols_yaml), config, metrics,
                                  data, env)
    IN  IF result.status # "ok"
        THEN [result |-> result, wrote |-> FALSE,
              response |-> ErrorResponse(result.status)]
        ELSE IF ~writable
        THEN [result |-> result, wrote |-> FALSE,
              response |-> ErrorResponse("OSError")]
        ELSE [result |-> result, wrote |-> TRUE,
              response |-> DecisionResponse(result)]

----------------------------------------------------------------------------
(* Inputs of the decision engine *)

\* The longest policies.yaml list.
MaxPolicies == 3

BudgetLow == [key |-> "error_budget_pct",
              rule |-> [operator |-> "lt", value |-> Num(1000)]]
BurnHot == [key |-> "burn_rate",
            rule |-> [operator |-> "in",
                      value |-> Lst({Str("high"), Str("critical")})]]
BurnNotLow == [key |-> "burn_rate",
               rule |-> [operator |-> "neq", value |-> Str("low")]]
FreezeOn == [key |-> "change_freeze",
             rule |-> [operator |-> "eq", value |-> Num(1)]]
BurnOverFive == [key |-> "burn_rate",
                 rule |-> [operator |-> "gte", value |-> Num(5)]]

\* What a policy record holds besides id, name, reason and remediation.
\* change_freeze is no key of the signal map; burn_rate >= 5 compares a
\* string with a number.
PolicyRules ==
    {[action |-> "BLOCK", conditions |-> <<BudgetLow>>],
     [action |-> "DELAY", conditions |-> <<BurnHot>>, delay_minutes |-> 30],
     [action |-> "WARN",  conditions |-> <<BurnNotLow>>],
     [action |-> "BLOCK", conditions |-> <<BudgetLow, FreezeOn>>],
     [action |-> "DELAY", conditions |-> <<BurnOverFive>>, delay_minutes |-> 15],
     [action |-> "ALLOW", conditions |-> <<>>]}

PolicyBodies ==
    {r @@ [priority |-> p] : r \in PolicyRules, p \in {1, 2}}
    \cup {[action |-> "ALLOW"]}

PolicyId(i) == <<"P001", "P002", "P003", "P004", "P005">>[i]
PolicyName(i) == <<"first", "second", "third", "fourth", "fifth">>[i]
PolicyReason(i) == <<"reason 1", "reason 2", "reason 3", "reason 4", "reason 5">>[i]
PolicyRemediation(i) == <<"remedy 1", "remedy 2", "remedy 3", "remedy 4", "remedy 5">>[i]

\* A policies.yaml list: the i-th declared policy carries the i-th id.
Declared(bodies) ==
    [i \in 1..Len(bodies) |->
        bodies[i] @@ [id |-> PolicyId(i), name |-> PolicyName(i),
                      reason |-> PolicyReason(i),
                      remediation |-> PolicyRemediation(i)]]

PolicyFiles ==
    {Declared(b) : b \in UNION {[1..n -> PolicyBodies] : n \in 0..MaxPolicies}}

\* The evaluator results handed to the decision engine (tests build them the
\* same way, test_decision_engine.py:19-61).
SloResults ==
    {[error_budget_pct |-> b, burn_rate |-> r, availability_pct |-> 99950000,
      latency_compliant |-> TRUE] : b \in {500, 6000}, r \in {"low", "critical"}}

CostResults ==
    {[wow_change_pct |-> 500, spike_detected |-> FALSE, trend |-> "stable"]}

NoExit == -1

----------------------------------------------------------------------------
(* Inputs of _matches *)

Operators == {"lt", "lte", "gt", "gte", "eq", "neq", "in"}
Targets == {Num(1000), Str("high"), Lst({Num(1000), Str("high")})}

RulesOf(ops, targets) ==
    {[operator |-> o, value |-> v] : o \in ops, v \in targets}

BudgetRules ==
    RulesOf(Operators \cup {"between"}, Targets)
    \cup {[value |-> v] : v \in Targets}
    \cup {[operator |-> o] : o \in Operators \cup {"between"}}
BurnRules ==
    RulesOf(Operators \cup {"between"}, {Str("high")})
    \cup {[value |-> Str("high")], [operator |-> "lt", value |-> Num(1000)],
          [operator |-> "in", value |-> Lst({Num(1000), Str("high")})]}
FreezeRules ==
    {[operator |-> "eq", value |-> Num(1)], [operator |-> "between", value |-> Num(1)]}

RulesFor(key) ==
    CASE key = "error_budget_pct" -> BudgetRules
      [] key = "burn_rate"        -> BurnRules
      [] key = "change_freeze"    -> FreezeRules

ConditionKeys == {"error_budget_pct", "burn_rate", "change_freeze"}

\* A conditions mapping in its iteration order: no key twice.
ConditionMaps ==
    UNION {
      {c \in [1..n -> UNION {{[key |-> k, rule |-> r] : r \in RulesFor(k)} : k \in ConditionKeys}] :
          \A i, j \in 1..n : i # j => c[i].key # c[j].key}
      : n \in 0..Cardinality(ConditionKeys)}

MatchPolicies ==
    {[id |-> "P001", conditions |-> c] : c \in ConditionMaps} \cup {[id |-> "P001"]}

MatchSignals ==
    {collect_signals(
        [error_budget_pct |-> b, burn_rate |-> r, availability_pct |-> 99950000,
         latency_compliant |-> TRUE],
        [wow_change_pct |-> 500, spike_detected |-> FALSE, trend |-> "stable"])
     : b \in {500, 1000, 6000}, r \in {"critical", "high", "low"}}

----------------------------------------------------------------------------
(* Inputs of the reliability evaluator *)

\* The longest hourly_burn_rate series.
MaxHours == 4

SloConfig(target, burn) ==
    [slos |-> [availability |-> [target |-> target],
               latency |-> [p95_threshold_ms |-> 500]]] @@ burn

\* Targets 99.9 (with the thresholds of conftest.py:32-36, and without a
\* burn_rate section), 99.0 with thresholds of its own, 100, 50 and 100.5.
SloConfigs ==
    {SloConfig(99900000, [burn_rate |-> [thresholds |->
         [low |-> 10, medium |-> 20, high |-> 50, critical |-> 100]]]),
     SloConfig(99900000, [error_budget |-> 0]),
     SloConfig(99000000, [burn_rate |-> [thresholds |->
         [medium |-> 10, high |-> 30, critical |-> 60]]]),
     SloConfig(100000000, [burn_rate |-> [thresholds |-> [critical |-> 100]]]),
     SloConfig(50000000, [error_budget |-> 0]),
     SloConfig(100500000, [error_budget |-> 0])}

TotalRequests == {0, 1000, 1000000, 2592000}
\* failed_requests is read from the metrics file as it is: counts within the
\* total, one above it, and a negative one.
FailedRequests == {-1, 0, 1, 500, 700, 950, 2100, 3000000}
BurnSamples == {5, 40, 120}

\* The 24 hourly samples of recovering_metrics_path (conftest.py:96-101) and
\* of critical_metrics_path (conftest.py:76), in tenths.
RecoveringSeries ==
    << 8,  9, 10, 11,  9,  8,
      12, 14, 18, 24, 31, 28,
      25, 21, 19, 17, 15, 14,
      12, 11, 10,  9,  8,  9>>
CriticalSeries == [i \in 1..24 |-> 120]

HourlySeries ==
    UNION {[1..n -> BurnSamples] : n \in 0..MaxHours}
        \cup {RecoveringSeries, CriticalSeries}

\* metrics.json, as _metrics writes it (conftest.py:43-57).
Metrics(total, failed, p95, hourly) ==
    [service |-> "test-service", total_requests |-> total,
     failed_requests |-> failed,
     latency_percentiles |-> [p50_ms |-> 120, p95_ms |-> p95, p99_ms |-> 890],
     hourly_burn_rate |-> hourly]

MetricsInputs ==
    {Metrics(t, f, p, h)
     : t \in TotalRequests, f \in FailedRequests, p \in {480, 700}, h \in HourlySeries}

\* The record d without the keys of K.
Without(d, K) == [k \in DOMAIN d \ K |-> d[k]]

\* The keys evaluate() reads of metrics.json, latency_percentiles apart.
MetricsKeys == {"total_requests", "failed_requests", "hourly_burn_rate", "service"}
\* latency_percentiles as a collector may write it: with p95_ms and p99_ms,
\* with p99 for p99_ms, and with keys lacking.
LatencyInputs ==
    {[p50_ms |-> 120, p95_ms |-> 480, p99_ms |-> 890],
     [p50_ms |-> 120, p95_ms |-> 480, p99 |-> 870],
     [p50_ms |-> 120, p95_ms |-> 700],
     [p50_ms |-> 120, p99_ms |-> 890],
     [p50_ms |-> 120]}

\* metrics.json lacking any of its keys.
PartialMetrics ==
    {Without([Metrics(t, 950, 480, h) EXCEPT !.latency_percentiles = l], K)
     : t \in {0, 1000000}, h \in {<<>>, <<5, 40>>}, l \in LatencyInputs,
       K \in SUBSET (MetricsKeys \cup {"latency_percentiles"})}

----------------------------------------------------------------------------
(* Inputs of the cost evaluator *)

\* The longest series of the step family.
MaxDays == 14
\* The longest series given in every order of its observations.
MaxShuffled == 3

Obs(date, cost) == [date |-> date, cost |-> cost]

\* n daily observations in date order: k days at level a, the rest at level
\* b, each rising by s cents a day.  Python rounds the binary float of a
\* quotient; the levels are multiples of 12 cents for which no window mean
\* and no percentage of the family lies halfway between two roundings,
\* where the float's last bit decides.  960 to 1152 is +20 %, 960 to 1248
\* is +30 %.
StepSeries(n, k, a, b, s) ==
    [i \in 1..n |-> Obs(i, (IF i <= k THEN a ELSE b) + s * i)]

StepCosts == {-480, 0, 960, 1152, 1248, 1920}

DatedSeries ==
    UNION {{StepSeries(n, k, a, b, s) : k \in 0..n, a \in StepCosts,
                                        b \in StepCosts, s \in {0, 12}}
           : n \in 0..MaxDays}

\* Observations of distinct dates, in any order.
ShuffledSeries ==
    {q \in UNION {[1..n -> {Obs(d, c) : d \in 1..4, c \in {960, 1248}}]
                  : n \in 0..MaxShuffled}
       : \A i, j \in DOMAIN q : i # j => q[i].date # q[j].date}

\* The days of _cost_data, conftest.py:114, and the first day of its spike,
\* conftest.py:116.
SeriesDays == 30
SpikeDay == 21

\* _cost_data generalised: day i (from 0) costs base + i * s1 before the
\* spike and lift + i * s2 from SpikeDay on.  _cost_data(spike=True) is
\* MonthSeries(4500, 10, 6300, 50), _cost_data() is
\* MonthSeries(4500, 10, 4500, 10).
MonthSeries(base, s1, lift, s2) ==
    [i \in 1..SeriesDays |->
        Obs(i, IF i - 1 >= SpikeDay THEN lift + (i - 1) * s2
               ELSE base + (i - 1) * s1)]

MonthlySeries ==
    {MonthSeries(4500, 10, 4500, 10)} \cup
    {MonthSeries(base, s1, lift, s2) :
        base \in {4500, 10000}, s1 \in {1, 10},
        lift \in {6300, 6600, 14100, 20000}, s2 \in {1, 50}}

CostSeries == DatedSeries \cup ShuffledSeries \cup MonthlySeries

\* cost.json with budget_usd_monthly 1500 (conftest.py:126), 0, or without it.
CostData ==
    {[service |-> "test-service", currency |-> "USD", daily_costs |-> q] @@ b
     : q \in CostSeries,
       b \in {[budget_usd_monthly |-> 150000], [budget_usd_monthly |-> 0],
               [collected_at |-> "2026-02-20T00:00:00Z"]}}

\* COST_WARN_PCT / COST_BLOCK_PCT: the defaults 20 / 30, and overrides.
CostEnvs ==
    {[warn |-> 2000, block |-> 3000],
     [warn |-> 1000, block |-> 5000],
     [warn |-> 3000, block |-> 2000]}

----------------------------------------------------------------------------
(* Inputs of the gate *)

\* The most evaluate() and report() calls made on one set of instances.
MaxCalls == 2

\* slos.yaml of conftest.py:17-40.
GateConfig ==
    SloConfig(99900000, [burn_rate |-> [thresholds |->
        [low |-> 10, medium |-> 20, high |-> 50, critical |-> 100]]])

\* A healthy service, and 950 failures in 1,000,000 requests
\* (conftest.py:67-80) over several hourly series, the empty one included.
GateMetrics ==
    {Metrics(2592000, 500, 480, <<5, 5, 5>>)}
    \cup {Metrics(1000000, 950, 700, h) : h \in {CriticalSeries, <<5>>, <<>>}}

\* cost.json: two weeks at 9.60 a day, and a second week at 12.48 (+30 %).
GateCosts ==
    {[service |-> "test-service", currency |-> "USD", daily_costs |-> q,
      budget_usd_monthly |-> 150000]
     : q \in {StepSeries(14, 7, 960, 960, 0), StepSeries(14, 7, 960, 1248, 0)}}

\* policies.yaml: a blocking rule on error_budget_pct < 10 of first
\* priority, declared last, and a ruleset where it comes second.
GatePolicies ==
    {Declared(<<[action |-> "WARN", conditions |-> <<BurnNotLow>>, priority |-> 2],
                [action |-> "BLOCK", conditions |-> <<BudgetLow>>, priority |-> 1]>>),
     Declared(<<[action |-> "DELAY", conditions |-> <<BurnHot>>,
                 delay_minutes |-> 30, priority |-> 1],
                [action |-> "BLOCK", conditions |-> <<BudgetLow>>, priority |-> 2]>>)}

\* The stored inputs, by the component that reads them.
StoredInputs ==
    [metrics |-> metrics_file, cost |-> cost_file, policies |-> policies_yaml]

----------------------------------------------------------------------------
(* Inputs of the callers that change the results they were given *)

\* metrics.json with an hourly series and without the key.
AliasMetrics ==
    {Metrics(2592000, 500, 480, <<5, 5, 5>>),
     Metrics(2592000, 500, 480, <<5>>),
     Without(Metrics(2592000, 500, 480, <<5>>), {"hourly_burn_rate"})}

\* cost.json with a cost_breakdown and without one.
AliasCosts ==
    {[service |-> "test-service", daily_costs |-> q, budget_usd_monthly |-> 150000] @@ b
     : q \in {StepSeries(14, 7, 960, 960, 0), StepSeries(8, 4, 960, 1248, 0)},
       b \in {[cost_breakdown |-> [compute |-> 4000]], [currency |-> "USD"]}}

----------------------------------------------------------------------------
(* Inputs of the audit log *)

\* The most write() calls made on a log directory.
MaxWrites == 2

\* The UTC days the clock passes through.
FirstDay == 1
LastDay == 2
Days == FirstDay..LastDay

\* What to_dict() gives of the results written, test_audit_log.py:24-28.
AuditResults ==
    {[action |-> a, policy_id |-> "P008", reason |-> "Test reason",
      remediation |-> "No action", delay_minutes |-> 0,
      evaluated_policies |-> <<>>] : a \in {"ALLOW", "BLOCK"}}

IdleThread == [pc |-> "idle"]

----------------------------------------------------------------------------
(* Inputs of POST /api/simulate *)

\* The most requests made of the route.
MaxRequests == 2

\* Request bodies: for each signal, None when the body has no override for
\* it.  error_budget_pct 5.00 and 80.00, burn_rate "critical".
SimulateBodies ==
    {[error_budget_pct |-> b, burn_rate |-> r]
     : b \in {None, Num(500), Num(8000)}, r \in {None, Str("critical")}}

----------------------------------------------------------------------------
(* Each specification exercises one component; the others stay idle. *)

MatchIdle ==
    /\ m_policy = [id |-> "P001"]
    /\ m_signals \in {s \in MatchSignals : s.error_budget_pct = Num(500) /\ s.burn_rate = Str("low")}
    /\ m_result = "none"

DecisionIdle ==
    /\ policies_yaml = <<>>
    /\ policies = <<>>
    /\ slo_r \in {r \in SloResults : r.error_budget_pct = 500 /\ r.burn_rate = "low"}
    /\ cost_r \in CostResults
    /\ decision = NoDecision
    /\ exit_status = NoExit

SloIdle ==
    /\ slo_config = SloConfig(99900000, [error_budget |-> 0])
    /\ slo_metrics = [total_requests |-> 0]
    /\ slo_result = NoSloResult

CostIdle ==
    /\ cost_env = [warn |-> 2000, block |-> 3000]
    /\ cost_data = [daily_costs |-> <<>>]
    /\ cost_result = NoCostResult

GateIdle ==
    /\ metrics_file = slo_metrics
    /\ cost_file = cost_data
    /\ loaded_at = StoredInputs
    /\ reported = NoDecision
    /\ calls = <<>>

NoResults == [slo |-> NoSloResult, cost |-> NoCostResult]

AliasIdle ==
    /\ returned = NoResults
    /\ later = NoResults

SimulateIdle ==
    /\ log_dir_writable = TRUE
    /\ handled = <<>>
    /\ audit_trail = <<>>

AuditIdle ==
    /\ utc_day = FirstDay
    /\ audit_files = [d \in Days |-> NoFile]
    /\ threads = {1}
    /\ audit_thread = [w \in threads |-> IdleThread]
    /\ written = <<>>
    /\ read_result = NotRead

----------------------------------------------------------------------------
(* Specification of the decision engine: an engine is constructed over a   *)
(* policies file, evaluates once and main() exits with the result's code.  *)

DecisionInit ==
    /\ policies_yaml \in PolicyFiles
    /\ policies = load_policies(policies_yaml)
    /\ slo_r \in SloResults
    /\ cost_r \in CostResults
    /\ decision = NoDecision
    /\ exit_status = NoExit

\* engine.evaluate()
Evaluate ==
    /\ decision = NoDecision
    /\ decision' = DecisionEngine_evaluate(policies, slo_r, cost_r)
    /\ UNCHANGED <<policies_yaml, policies, slo_r, cost_r, exit_status>>
    /\ UNCHANGED matchVars
    /\ UNCHANGED sloVars
    /\ UNCHANGED costVars
    /\ UNCHANGED gateVars
    /\ UNCHANGED aliasVars
    /\ UNCHANGED auditVars
    /\ UNCHANGED simulateVars

\* sys.exit(result.exit_code()), decision_engine.py:252
Exit ==
    /\ decision.status = "ok"
    /\ exit_status = NoExit
    /\ exit_status' = exit_code(decision.action)
    /\ UNCHANGED <<policies_yaml, policies, slo_r, cost_r, decision>>
    /\ UNCHANGED matchVars
    /\ UNCHANGED sloVars
    /\ UNCHANGED costVars
    /\ UNCHANGED gateVars
    /\ UNCHANGED aliasVars
    /\ UNCHANGED auditVars
    /\ UNCHANGED simulateVars

Init == DecisionInit /\ MatchIdle /\ SloIdle /\ CostIdle /\ GateIdle /\ AliasIdle /\ AuditIdle /\ SimulateIdle

Next == Evaluate \/ Exit

Spec == Init /\ [][Next]_vars

----------------------------------------------------------------------------
(* Specification of _matches alone, over every conditions mapping. *)

Match ==
    /\ m_result = "none"
    /\ m_result' = matches(m_policy, m_signals)
    /\ UNCHANGED <<m_policy, m_signals>>
    /\ UNCHANGED decisionVars
    /\ UNCHANGED sloVars
    /\ UNCHANGED costVars
    /\ UNCHANGED gateVars
    /\ UNCHANGED aliasVars
    /\ UNCHANGED auditVars
    /\ UNCHANGED simulateVars

MatchInit ==
    /\ m_policy \in MatchPolicies
    /\ m_signals \in MatchSignals
    /\ m_result = "none"
    /\ DecisionIdle
    /\ SloIdle
    /\ CostIdle
    /\ GateIdle
    /\ AliasIdle
    /\ AuditIdle
    /\ SimulateIdle

MatchNext == Match

MatchSpec == MatchInit /\ [][MatchNext]_vars

----------------------------------------------------------------------------
(* Specification of the reliability evaluator: an engine is constructed    *)
(* over a configuration and a metrics file and evaluates.                  *)

SloInit ==
    /\ slo_config \in SloConfigs
    /\ slo_metrics \in MetricsInputs
    /\ slo_result = NoSloResult
    /\ DecisionIdle
    /\ MatchIdle
    /\ CostIdle
    /\ GateIdle
    /\ AliasIdle
    /\ AuditIdle
    /\ SimulateIdle

\* engine.evaluate()
SloEvaluate ==
    /\ slo_result = NoSloResult
    /\ slo_result' = SLOEngine_evaluate(slo_config, slo_metrics)
    /\ UNCHANGED <<slo_config, slo_metrics>>
    /\ UNCHANGED decisionVars
    /\ UNCHANGED matchVars
    /\ UNCHANGED costVars
    /\ UNCHANGED gateVars
    /\ UNCHANGED aliasVars
    /\ UNCHANGED auditVars
    /\ UNCHANGED simulateVars

SloNext == SloEvaluate

SloSpec == SloInit /\ [][SloNext]_vars

\* The same engine over metrics files that lack keys.
SloPartialInit ==
    /\ slo_config \in SloConfigs
    /\ slo_metrics \in PartialMetrics
    /\ slo_result = NoSloResult
    /\ DecisionIdle
    /\ MatchIdle
    /\ CostIdle
    /\ GateIdle
    /\ AliasIdle
    /\ AuditIdle
    /\ SimulateIdle

SloPartialSpec == SloPartialInit /\ [][SloNext]_vars

----------------------------------------------------------------------------
(* Specification of the cost evaluator: the module is imported under some  *)
(* environment, a collector is constructed over a cost file and evaluates. *)

CostInit ==
    /\ cost_env \in CostEnvs
    /\ cost_data \in CostData
    /\ cost_result = NoCostResult
    /\ DecisionIdle
    /\ MatchIdle
    /\ SloIdle
    /\ GateIdle
    /\ AliasIdle
    /\ AuditIdle
    /\ SimulateIdle

\* collector.evaluate()
CostEvaluate ==
    /\ cost_result = NoCostResult
    /\ cost_result' = CostCollector_evaluate(cost_data, cost_env)
    /\ UNCHANGED <<cost_env, cost_data>>
    /\ UNCHANGED decisionVars
    /\ UNCHANGED matchVars
    /\ UNCHANGED sloVars
    /\ UNCHANGED gateVars
    /\ UNCHANGED aliasVars
    /\ UNCHANGED auditVars
    /\ UNCHANGED simulateVars

CostNext == CostEvaluate

CostSpec == CostInit /\ [][CostNext]_vars

----------------------------------------------------------------------------
(* Specification of the gate: a DecisionEngine is constructed with its     *)
(* SLOEngine and CostCollector over the stored inputs; evaluate() and      *)
(* report() are called on the three instances in any order; the stored     *)
(* inputs are rewritten at any time; new instances are constructed at any  *)
(* time; main() exits once it has evaluated and reported.                  *)

GateInit ==
    /\ metrics_file \in GateMetrics
    /\ cost_file \in GateCosts
    /\ policies_yaml \in GatePolicies
    /\ slo_config = GateConfig
    /\ slo_metrics = metrics_file
    /\ cost_data = cost_file
    /\ policies = load_policies(policies_yaml)
    /\ cost_env = [warn |-> 2000, block |-> 3000]
    /\ loaded_at = StoredInputs
    /\ slo_r \in {r \in SloResults : r.error_budget_pct = 500 /\ r.burn_rate = "low"}
    /\ cost_r \in CostResults
    /\ decision = NoDecision
    /\ reported = NoDecision
    /\ slo_result = NoSloResult
    /\ cost_result = NoCostResult
    /\ exit_status = NoExit
    /\ calls = <<>>
    /\ MatchIdle
    /\ AliasIdle
    /\ AuditIdle
    /\ SimulateIdle

\* DecisionEngine(), with the SLOEngine() and CostCollector() it constructs:
\* decision_engine.py:90-92, slo_engine.py:93-94, cost_collector.py:76-77.
Construct ==
    /\ exit_status = NoExit
    /\ slo_config' = GateConfig
    /\ slo_metrics' = metrics_file
    /\ cost_data' = cost_file
    /\ policies' = load_policies(policies_yaml)
    /\ loaded_at' = StoredInputs
    /\ decision' = NoDecision
    /\ reported' = NoDecision
    /\ slo_result' = NoSloResult
    /\ cost_result' = NoCostResult
    /\ calls' = <<>>
    /\ UNCHANGED <<policies_yaml, metrics_file, cost_file, cost_env,
                   slo_r, cost_r, exit_status>>
    /\ UNCHANGED matchVars
    /\ UNCHANGED aliasVars
    /\ UNCHANGED auditVars
    /\ UNCHANGED simulateVars

\* What engine.evaluate() returns in the current state.
EngineResult ==
    engine_evaluate(evaluation_input(policies, load_policies(policies_yaml)),
                    slo_config,
                    evaluation_input(slo_metrics, metrics_file),
                    evaluation_input(cost_data, cost_file), cost_env)

\* engine.evaluate(), decision_engine.py:245
GateEvaluate ==
    /\ exit_status = NoExit
    /\ Len(calls) < MaxCalls
    /\ calls' = Append(calls, "DecisionEngine.evaluate")
    /\ decision' = EngineResult
    /\ slo_r' = IF decision'.status = "ok" THEN decision'.slo ELSE slo_r
    /\ cost_r' = IF decision'.status = "ok" THEN decision'.cost ELSE cost_r
    /\ UNCHANGED <<policies_yaml, policies, exit_status, reported>>
    /\ UNCHANGED <<slo_config, slo_metrics, slo_result>>
    /\ UNCHANGED <<cost_env, cost_data, cost_result>>
    /\ UNCHANGED <<metrics_file, cost_file, loaded_at>>
    /\ UNCHANGED matchVars
    /\ UNCHANGED aliasVars
    /\ UNCHANGED auditVars
    /\ UNCHANGED simulateVars

\* engine.report(), decision_engine.py:188-189: it evaluates again.
GateReport ==
    /\ exit_status = NoExit
    /\ Len(calls) < MaxCalls
    /\ calls' = Append(calls, "DecisionEngine.report")
    /\ reported' = EngineResult
    /\ slo_r' = IF reported'.status = "ok" THEN reported'.slo ELSE slo_r
    /\ cost_r' = IF reported'.status = "ok" THEN reported'.cost ELSE cost_r
    /\ UNCHANGED <<policies_yaml, policies, exit_status, decision>>
    /\ UNCHANGED <<slo_config, slo_metrics, slo_result>>
    /\ UNCHANGED <<cost_env, cost_data, cost_result>>
    /\ UNCHANGED <<metrics_file, cost_file, loaded_at>>
    /\ UNCHANGED matchVars
    /\ UNCHANGED aliasVars
    /\ UNCHANGED auditVars
    /\ UNCHANGED simulateVars

\* evaluate() on the SLOEngine, directly or from its report(),
\* slo_engine.py:182.
GateSloEvaluate ==
    /\ exit_status = NoExit
    /\ Len(calls) < MaxCalls
    /\ calls' = Append(calls, "SLOEngine.evaluate")
    /\ slo_result' = SLOEngine_evaluate(slo_config,
                                        evaluation_input(slo_metrics, metrics_file))
    /\ UNCHANGED decisionVars
    /\ UNCHANGED <<slo_config, slo_metrics>>
    /\ UNCHANGED costVars
    /\ UNCHANGED <<metrics_file, cost_file, loaded_at, reported>>
    /\ UNCHANGED matchVars
    /\ UNCHANGED aliasVars
    /\ UNCHANGED auditVars
    /\ UNCHANGED simulateVars

\* evaluate() on the CostCollector, directly or from its report(),
\* cost_collector.py:151.
GateCostEvaluate ==
    /\ exit_status = NoExit
    /\ Len(calls) < MaxCalls
    /\ calls' = Append(calls, "CostCollector.evaluate")
    /\ cost_result' = CostCollector_evaluate(evaluation_input(cost_data, cost_file),
                                             cost_env)
    /\ UNCHANGED decisionVars
    /\ UNCHANGED sloVars
    /\ UNCHANGED <<cost_env, cost_data>>
    /\ UNCHANGED <<metrics_file, cost_file, loaded_at, reported>>
    /\ UNCHANGED matchVars
    /\ UNCHANGED aliasVars
    /\ UNCHANGED auditVars
    /\ UNCHANGED simulateVars

\* sys.exit(result.exit_code()) of main(), decision_engine.py:245-252:
\* result is what evaluate() returned, and the report has been printed.
GateExit ==
    /\ exit_status = NoExit
    /\ decision.status = "ok"
    /\ reported.status = "ok"
    /\ exit_status' = exit_code(decision.action)
    /\ UNCHANGED <<policies_yaml, policies, slo_r, cost_r, decision>>
    /\ UNCHANGED sloVars
    /\ UNCHANGED costVars
    /\ UNCHANGED gateVars
    /\ UNCHANGED matchVars
    /\ UNCHANGED aliasVars
    /\ UNCHANGED auditVars
    /\ UNCHANGED simulateVars

\* The collectors rewrite metrics.json.
StoreMetrics ==
    /\ exit_status = NoExit
    /\ metrics_file' \in GateMetrics \ {metrics_file}
    /\ UNCHANGED decisionVars
    /\ UNCHANGED sloVars
    /\ UNCHANGED costVars
    /\ UNCHANGED <<cost_file, loaded_at, reported, calls>>
    /\ UNCHANGED matchVars
    /\ UNCHANGED aliasVars
    /\ UNCHANGED auditVars
    /\ UNCHANGED simulateVars

\* The collectors rewrite cost.json.
StoreCost ==
    /\ exit_status = NoExit
    /\ cost_file' \in GateCosts \ {cost_file}
    /\ UNCHANGED decisionVars
    /\ UNCHANGED sloVars
    /\ UNCHANGED costVars
    /\ UNCHANGED <<metrics_file, loaded_at, reported, calls>>
    /\ UNCHANGED matchVars
    /\ UNCHANGED aliasVars
    /\ UNCHANGED auditVars
    /\ UNCHANGED simulateVars

\* An operator edits policies.yaml.
StorePolicies ==
    /\ exit_status = NoExit
    /\ policies_yaml' \in GatePolicies \ {policies_yaml}
    /\ UNCHANGED <<policies, slo_r, cost_r, decision, exit_status>>
    /\ UNCHANGED sloVars
    /\ UNCHANGED costVars
    /\ UNCHANGED gateVars
    /\ UNCHANGED matchVars
    /\ UNCHANGED aliasVars
    /\ UNCHANGED auditVars
    /\ UNCHANGED simulateVars

GateNext ==
    \/ Construct
    \/ GateEvaluate
    \/ GateReport
    \/ GateSloEvaluate
    \/ GateCostEvaluate
    \/ GateExit
    \/ StoreMetrics
    \/ StoreCost
    \/ StorePolicies

GateSpec == GateInit /\ [][GateNext]_vars

----------------------------------------------------------------------------
(* Specification of callers that change what evaluate() returned to them:  *)
(* slo_result and cost_result are the result objects as the caller holds   *)
(* them; each engine evaluates, the caller changes the result in place,    *)
(* and the engine evaluates again.                                         *)

AliasInit ==
    /\ slo_config = GateConfig
    /\ slo_metrics \in AliasMetrics
    /\ slo_result = NoSloResult
    /\ cost_env = [warn |-> 2000, block |-> 3000]
    /\ cost_data \in AliasCosts
    /\ cost_result = NoCostResult
    /\ returned = NoResults
    /\ later = NoResults
    /\ DecisionIdle
    /\ MatchIdle
    /\ GateIdle
    /\ AuditIdle
    /\ SimulateIdle

\* result = engine.evaluate()
AliasSloEvaluate ==
    /\ returned.slo = NoSloResult
    /\ slo_result' = SLOEngine_evaluate(slo_config, slo_metrics)
    /\ returned' = [returned EXCEPT !.slo = slo_result']
    /\ UNCHANGED <<slo_config, slo_metrics, later>>
    /\ UNCHANGED costVars
    /\ UNCHANGED decisionVars
    /\ UNCHANGED matchVars
    /\ UNCHANGED gateVars
    /\ UNCHANGED auditVars
    /\ UNCHANGED simulateVars

\* result = collector.evaluate()
AliasCostEvaluate ==
    /\ returned.cost = NoCostResult
    /\ cost_result' = CostCollector_evaluate(cost_data, cost_env)
    /\ returned' = [returned EXCEPT !.cost = cost_result']
    /\ UNCHANGED <<cost_env, cost_data, later>>
    /\ UNCHANGED sloVars
    /\ UNCHANGED decisionVars
    /\ UNCHANGED matchVars
    /\ UNCHANGED gateVars
    /\ UNCHANGED auditVars
    /\ UNCHANGED simulateVars

\* result.details["hourly_burn_rates"].append(12.0), or [0] = 12.0
MutateHourlyRates ==
    /\ slo_result.status = "ok"
    /\ slo_result = returned.slo
    /\ later.slo = NoSloResult
    /\ \E h \in {Append(slo_result.details.hourly_burn_rates, 120),
                 [slo_result.details.hourly_burn_rates EXCEPT ![1] = 120]} :
          /\ slo_result' = [slo_result EXCEPT !.details.hourly_burn_rates = h]
          /\ slo_metrics' = metrics_after_mutation(slo_metrics, h)
    /\ UNCHANGED <<slo_config, returned, later>>
    /\ UNCHANGED costVars
    /\ UNCHANGED decisionVars
    /\ UNCHANGED matchVars
    /\ UNCHANGED gateVars
    /\ UNCHANGED auditVars
    /\ UNCHANGED simulateVars

\* result.daily_costs[i]["cost"] = 19.20
MutateDailyCost ==
    /\ cost_result.status = "ok"
    /\ cost_result = returned.cost
    /\ later.cost = NoCostResult
    /\ \E i \in DOMAIN cost_result.daily_costs :
          /\ cost_result' = [cost_result EXCEPT !.daily_costs[i].cost = 1920]
          /\ cost_data' = data_after_entry_mutation(
                              cost_data, cost_result.daily_costs[i].date, 1920)
    /\ UNCHANGED <<cost_env, returned, later>>
    /\ UNCHANGED sloVars
    /\ UNCHANGED decisionVars
    /\ UNCHANGED matchVars
    /\ UNCHANGED gateVars
    /\ UNCHANGED auditVars
    /\ UNCHANGED simulateVars

\* result.details["cost_breakdown"]["compute"] = 99.00
MutateCostBreakdown ==
    /\ cost_result.status = "ok"
    /\ cost_result = returned.cost
    /\ later.cost = NoCostResult
    /\ cost_result' = [cost_result EXCEPT !.details.cost_breakdown = [compute |-> 9900]]
    /\ cost_data' = data_after_breakdown_mutation(cost_data, [compute |-> 9900])
    /\ UNCHANGED <<cost_env, returned, later>>
    /\ UNCHANGED sloVars
    /\ UNCHANGED decisionVars
    /\ UNCHANGED matchVars
    /\ UNCHANGED gateVars
    /\ UNCHANGED auditVars
    /\ UNCHANGED simulateVars

\* engine.evaluate() again
AliasSloLater ==
    /\ returned.slo # NoSloResult
    /\ later.slo = NoSloResult
    /\ later' = [later EXCEPT !.slo = SLOEngine_evaluate(slo_config, slo_metrics)]
    /\ UNCHANGED returned
    /\ UNCHANGED sloVars
    /\ UNCHANGED costVars
    /\ UNCHANGED decisionVars
    /\ UNCHANGED matchVars
    /\ UNCHANGED gateVars
    /\ UNCHANGED auditVars
    /\ UNCHANGED simulateVars

\* collector.evaluate() again
AliasCostLater ==
    /\ returned.cost # NoCostResult
    /\ later.cost = NoCostResult
    /\ later' = [later EXCEPT !.cost = CostCollector_evaluate(cost_data, cost_env)]
    /\ UNCHANGED returned
    /\ UNCHANGED sloVars
    /\ UNCHANGED costVars
    /\ UNCHANGED decisionVars
    /\ UNCHANGED matchVars
    /\ UNCHANGED gateVars
    /\ UNCHANGED auditVars
    /\ UNCHANGED simulateVars

AliasNext ==
    \/ AliasSloEvaluate
    \/ AliasCostEvaluate
    \/ MutateHourlyRates
    \/ MutateDailyCost
    \/ MutateCostBreakdown
    \/ AliasSloLater
    \/ AliasCostLater

AliasSpec == AliasInit /\ [][AliasNext]_vars

----------------------------------------------------------------------------
(* Specification of the audit log: AuditLog(log_dir) over an empty         *)
(* directory; each thread calls write() and read_today() one after the     *)
(* other, the threads run concurrently, and the clock passes midnight at   *)
(* any moment.  AuditSpec has one thread, AuditConcurrentSpec two.         *)

AuditStart(n) ==
    /\ utc_day = FirstDay
    /\ audit_files = [d \in Days |-> NoFile]
    /\ threads = 1..n
    /\ audit_thread = [w \in threads |-> IdleThread]
    /\ written = <<>>
    /\ read_result = NotRead
    /\ DecisionIdle
    /\ MatchIdle
    /\ SloIdle
    /\ CostIdle
    /\ GateIdle
    /\ AliasIdle
    /\ SimulateIdle

AuditInit == AuditStart(1)

AuditConcurrentInit == AuditStart(2)

\* The write() calls made so far.
WritesBegun ==
    Len(written) + Cardinality({w \in threads : audit_thread[w].pc # "idle"})

AuditFrame ==
    /\ UNCHANGED decisionVars
    /\ UNCHANGED matchVars
    /\ UNCHANGED sloVars
    /\ UNCHANGED costVars
    /\ UNCHANGED gateVars
    /\ UNCHANGED aliasVars
    /\ UNCHANGED simulateVars

\* write(result), lines 41-44: the record takes its timestamp.
WriteStamp(w) ==
    /\ audit_thread[w].pc = "idle"
    /\ WritesBegun < MaxWrites
    /\ \E result \in AuditResults :
          audit_thread' = [audit_thread EXCEPT ![w] =
              [pc |-> "stamped", result |-> result,
               record |-> audit_record(utc_day, result)]]
    /\ UNCHANGED <<utc_day, audit_files, written, read_result, threads>>
    /\ AuditFrame

\* Lines 45-46: _log_path() asks the clock again, and the file is opened.
WriteOpen(w) ==
    /\ audit_thread[w].pc = "stamped"
    /\ audit_thread' = [audit_thread EXCEPT ![w] =
          [pc |-> "open", path |-> utc_day] @@ audit_thread[w]]
    /\ audit_files' = [audit_files EXCEPT ![utc_day] = open_appending(@)]
    /\ UNCHANGED <<utc_day, written, read_result, threads>>
    /\ AuditFrame

\* Lines 47-48: the line is flushed in one OS write, and write() returns.
WriteLine(w) ==
    /\ audit_thread[w].pc = "open"
    /\ audit_files' = [audit_files EXCEPT ![audit_thread[w].path] =
          [@ EXCEPT !.pieces =
              Append(@, Piece(audit_thread[w].record, "all"))]]
    /\ written' = Append(written, [result |-> audit_thread[w].result,
                                    record |-> audit_thread[w].record,
                                    path |-> audit_thread[w].path])
    /\ audit_thread' = [audit_thread EXCEPT ![w] = IdleThread]
    /\ UNCHANGED <<utc_day, read_result, threads>>
    /\ AuditFrame

\* Line 47: the first OS write is short.
WriteHead(w) ==
    /\ audit_thread[w].pc = "open"
    /\ audit_files' = [audit_files EXCEPT ![audit_thread[w].path] =
          [@ EXCEPT !.pieces =
              Append(@, Piece(audit_thread[w].record, "head"))]]
    /\ audit_thread' = [audit_thread EXCEPT ![w] =
          [pc |-> "half"] @@ audit_thread[w]]
    /\ UNCHANGED <<utc_day, written, read_result, threads>>
    /\ AuditFrame

\* Lines 47-48: the rest of the line, and write() returns.
WriteTail(w) ==
    /\ audit_thread[w].pc = "half"
    /\ audit_files' = [audit_files EXCEPT ![audit_thread[w].path] =
          [@ EXCEPT !.pieces =
              Append(@, Piece(audit_thread[w].record, "tail"))]]
    /\ written' = Append(written, [result |-> audit_thread[w].result,
                                    record |-> audit_thread[w].record,
                                    path |-> audit_thread[w].path])
    /\ audit_thread' = [audit_thread EXCEPT ![w] = IdleThread]
    /\ UNCHANGED <<utc_day, read_result, threads>>
    /\ AuditFrame

\* read_today() by a thread that is in no write().
ReadToday(w) ==
    /\ audit_thread[w].pc = "idle"
    /\ read_result = NotRead
    /\ read_result' = read_today(audit_files, utc_day)
    /\ UNCHANGED <<utc_day, audit_files, audit_thread, written, threads>>
    /\ AuditFrame

\* The UTC date changes.
Midnight ==
    /\ utc_day < LastDay
    /\ utc_day' = utc_day + 1
    /\ UNCHANGED <<audit_files, audit_thread, written, read_result, threads>>
    /\ AuditFrame

AuditNext ==
    \/ \E w \in threads : WriteStamp(w)
    \/ \E w \in threads : WriteOpen(w)
    \/ \E w \in threads : WriteLine(w)
    \/ \E w \in threads : WriteHead(w)
    \/ \E w \in threads : WriteTail(w)
    \/ \E w \in threads : ReadToday(w)
    \/ Midnight

AuditSpec == AuditInit /\ [][AuditNext]_vars

AuditConcurrentSpec == AuditConcurrentInit /\ [][AuditNext]_vars

----------------------------------------------------------------------------
(* Specification of the dashboard's simulate route: requests are handled   *)
(* over stored inputs, and the audit log directory stops and starts being  *)
(* writable.                                                               *)

SimulateInit == GateInit

SimulateFrame ==
    /\ UNCHANGED decisionVars
    /\ UNCHANGED matchVars
    /\ UNCHANGED sloVars
    /\ UNCHANGED costVars
    /\ UNCHANGED gateVars
    /\ UNCHANGED aliasVars
    /\ UNCHANGED auditVars

\* One POST /api/simulate, app.py:76-99.
ApiSimulate ==
    /\ Len(handled) < MaxRequests
    /\ \E body \in SimulateBodies :
          LET out == api_simulate(body, policies_yaml, GateConfig, metrics_file,
                                  cost_file, cost_env, log_dir_writable)
          IN  /\ handled' = Append(handled,
                     [body |-> body, writable |-> log_dir_writable,
                      result |-> out.result, response |-> out.response])
              /\ audit_trail' = IF out.wrote THEN Append(audit_trail, out.result)
                                ELSE audit_trail
    /\ UNCHANGED log_dir_writable
    /\ SimulateFrame

\* The audit log can no longer be written: open() of line 46 of
\* audit_log.py raises OSError.
SinkFails ==
    /\ log_dir_writable
    /\ log_dir_writable' = FALSE
    /\ UNCHANGED <<handled, audit_trail>>
    /\ SimulateFrame

SinkRecovers ==
    /\ ~log_dir_writable
    /\ log_dir_writable' = TRUE
    /\ UNCHANGED <<handled, audit_trail>>
    /\ SimulateFrame

SimulateNext == ApiSimulate \/ SinkFails \/ SinkRecovers

SimulateSpec == SimulateInit /\ [][SimulateNext]_vars

----------------------------------------------------------------------------
(* Claims about DecisionEngine.evaluate, checked under Spec *)

Signals == collect_signals(slo_r, cost_r)

\* The declared policies (by declaration index) that match the signal map.
Matching == {i \in 1..Len(policies_yaml) : matches(policies_yaml[i], Signals) = "True"}

\* Declared policy i is ordered before declared policy j: lower priority
\* value, or the same value and declared earlier.
Before(i, j) ==
    \/ priority_key(policies_yaml[i]) < priority_key(policies_yaml[j])
    \/ /\ priority_key(policies_yaml[i]) = priority_key(policies_yaml[j])
       /\ i < j

IsResultOf(d, p) ==
    /\ d.action = p.action
    /\ d.policy_id = p.id
    /\ d.policy_name = p.name
    /\ d.reason = p.reason
    /\ d.remediation = p.remediation
    /\ d.delay_minutes = (IF "delay_minutes" \in DOMAIN p THEN p.delay_minutes ELSE 0)

\* C1: a decision that evaluate() returns is that of the matching policy with
\* the lowest priority value (99 for a policy that declares none), whatever
\* the declaration order, and of the first declared among those sharing that
\* value; its action, policy_id, policy_name, reason, remediation and
\* delay_minutes are that policy's.
C1_LowestPriorityFirstDeclaredWins ==
    (decision.status = "ok" /\ Matching # {}) =>
        \E w \in Matching :
            /\ \A j \in Matching \ {w} : Before(w, j)
            /\ IsResultOf(decision, policies_yaml[w])

\* A policy declared later wins over a matching policy declared before it,
\* and a tie in priority between two matching policies is met as well.
C1_Witness ==
    /\ decision.status = "ok"
    /\ \E i, j \in Matching :
          /\ i < j
          /\ priority_key(policies_yaml[j]) < priority_key(policies_yaml[i])
          /\ decision.policy_id = policies_yaml[j].id
    /\ \E i, j \in Matching :
          /\ i < j
          /\ priority_key(policies_yaml[j]) = priority_key(policies_yaml[i])

\* C2: when every configured policy fails to match (the empty list included),
\* evaluate() returns, without raising, the synthesized decision: ALLOW,
\* P-FALLBACK, no delay, the fixed reason and the "review your
\* configuration" remediation; the trace lists every configured policy with
\* matched = false; and the exit code is 0.
C2_NoMatchFallsBackToAllow ==
    (decision # NoDecision
       /\ \A i \in 1..Len(policies_yaml) : matches(policies_yaml[i], Signals) = "False") =>
        /\ decision.status = "ok"
        /\ decision.action = "ALLOW"
        /\ decision.policy_id = "P-FALLBACK"
        /\ decision.delay_minutes = 0
        /\ decision.reason = "No matching policy found - defaulting to ALLOW"
        /\ decision.remediation = "Review your policies.yaml configuration."
        /\ Len(decision.evaluated_policies) = Len(policies_yaml)
        /\ \A i \in 1..Len(policies_yaml) :
              \E k \in 1..Len(decision.evaluated_policies) :
                  /\ decision.evaluated_policies[k].id = policies_yaml[i].id
                  /\ decision.evaluated_policies[k].matched = FALSE
        /\ exit_status \in {NoExit, 0}

C2_Witness ==
    /\ decision.status = "ok"
    /\ decision.policy_id = "P-FALLBACK"
    /\ Len(policies_yaml) = MaxPolicies
    /\ exit_status = 0

\* The declared index of the policy a trace entry stands for (ids are
\* distinct in the policy files of the model).
DeclaredIndex(entry) == CHOOSE i \in 1..Len(policies_yaml) : policies_yaml[i].id = entry.id

\* C3: the trace of a returned decision holds one entry {id, name, matched,
\* action} per configured policy, in ascending priority order and declaration
\* order within equal priority, each with that policy's own match status,
\* also for the policies ordered after the winner; and policy_id is the id of
\* the first entry with matched = true.
C3_TraceIsCompleteAndOrdered ==
    decision.status = "ok" =>
        LET trace == decision.evaluated_policies IN
        /\ Len(trace) = Len(policies_yaml)
        /\ \A k \in 1..Len(trace) :
              /\ \E i \in 1..Len(policies_yaml) : policies_yaml[i].id = trace[k].id
              /\ LET p == policies_yaml[DeclaredIndex(trace[k])] IN
                 /\ trace[k].name = p.name
                 /\ trace[k].action = p.action
                 /\ trace[k].matched = (matches(p, Signals) = "True")
                 /\ DOMAIN trace[k] = {"id", "name", "matched", "action"}
        /\ \A k, l \in 1..Len(trace) :
              k < l => Before(DeclaredIndex(trace[k]), DeclaredIndex(trace[l]))
        /\ \A k \in 1..Len(trace) :
              (trace[k].matched /\ \A l \in 1..(k - 1) : ~trace[l].matched)
                  => decision.policy_id = trace[k].id

\* The winner is followed in the trace by an entry that matched and by one
\* that did not.
C3_Witness ==
    /\ decision.status = "ok"
    /\ Len(decision.evaluated_policies) = 3
    /\ decision.evaluated_policies[1].matched
    /\ decision.evaluated_policies[2].matched
    /\ ~decision.evaluated_policies[3].matched
    /\ decision.policy_id = decision.evaluated_policies[1].id

\* C4: the exit code of every decision is 0 for ALLOW and WARN, 1 for DELAY
\* and 2 for BLOCK: zero iff ALLOW or WARN, nonzero iff DELAY or BLOCK.
C4_ExitCodeMapping ==
    exit_status # NoExit =>
        /\ decision.action \in {"ALLOW", "WARN", "DELAY", "BLOCK"}
        /\ decision.action = "ALLOW" => exit_status = 0
        /\ decision.action = "WARN"  => exit_status = 0
        /\ decision.action = "DELAY" => exit_status = 1
        /\ decision.action = "BLOCK" => exit_status = 2
        /\ exit_status = 0 <=> decision.action \in {"ALLOW", "WARN"}
        /\ exit_status # 0 <=> decision.action \in {"DELAY", "BLOCK"}

C4_Witness ==
    /\ exit_status = 1
    /\ decision.action = "DELAY"
    /\ decision.policy_id # "P-FALLBACK"

----------------------------------------------------------------------------
(* Claims about DecisionEngine._matches, checked under MatchSpec *)

MConditions == IF "conditions" \in DOMAIN m_policy THEN m_policy.conditions ELSE <<>>

KeyPresent(c) == c.key \in DOMAIN m_signals

HasOperator(c) == "operator" \in DOMAIN c.rule
KnownOperator(c) == HasOperator(c) /\ c.rule.operator \in Operators
UnknownOperator(c) == HasOperator(c) /\ c.rule.operator \notin Operators

TargetOf(c) == IF "value" \in DOMAIN c.rule THEN c.rule.value ELSE None

\* What the seven operators mean, for a condition on a present key.
Holds(op, v, t) ==
    CASE op = "lt"  -> Orderable(v, t) /\ PyLt(v, t)
      [] op = "lte" -> Orderable(v, t) /\ (PyLt(v, t) \/ PyEq(v, t))
      [] op = "gt"  -> Orderable(v, t) /\ PyLt(t, v)
      [] op = "gte" -> Orderable(v, t) /\ (PyLt(t, v) \/ PyEq(v, t))
      [] op = "eq"  -> v.t = t.t /\ v.v = t.v
      [] op = "neq" -> ~(v.t = t.t /\ v.v = t.v)
      [] op = "in"  -> /\ t.t = "list" \/ (t.t = "str" /\ v.t = "str")
                       /\ IF t.t = "list" THEN v \in t.v ELSE v.v = t.v

Satisfied(c) == KeyPresent(c) /\ Holds(c.rule.operator, m_signals[c.key], TargetOf(c))

\* C5: a policy whose conditions use the seven operators matches iff every
\* condition is satisfied by signals[key] (lt <, lte <=, gt >, gte >=, eq =,
\* neq !=, in membership); one unsatisfied condition makes it not match; a
\* policy with an empty or absent condition set matches every signal map.
C5_MatchesIffEveryConditionSatisfied ==
    (m_result # "none" /\ \A i \in 1..Len(MConditions) : KnownOperator(MConditions[i])) =>
        /\ m_result = "True" <=> \A i \in 1..Len(MConditions) : Satisfied(MConditions[i])
        /\ MConditions = <<>> => m_result = "True"

\* Two satisfied conditions matched; the empty set is covered by the formula.
C5_Witness ==
    /\ m_result = "True"
    /\ Len(MConditions) = 2
    /\ \A i \in 1..2 : KnownOperator(MConditions[i]) /\ Satisfied(MConditions[i])
    /\ MConditions[1].rule.operator = "in"
    /\ MConditions[2].rule.operator = "lte"

\* The comparison of condition c is defined: the ordering operators have two
\* numbers or two strings, `in` has a list or two strings.
WellTyped(c) ==
    \/ ~KeyPresent(c)
    \/ LET op == IF HasOperator(c) THEN c.rule.operator ELSE "eq"
           v == m_signals[c.key]
           t == TargetOf(c)
       IN  /\ op \in {"lt", "lte", "gt", "gte"} => (v.t = t.t /\ v.t \in {"num", "str"})
           /\ op = "in" => (t.t = "list" \/ (t.t = "str" /\ v.t = "str"))

AbsentKeyAt(i) == i \in 1..Len(MConditions) /\ ~KeyPresent(MConditions[i])

WithoutCondition(i) ==
    [m_policy EXCEPT !.conditions =
        SubSeq(MConditions, 1, i - 1) \o SubSeq(MConditions, i + 1, Len(MConditions))]

\* C7: a condition on a present key whose operator is none of the seven is
\* skipped as if satisfied: the outcome is that of the policy without it, it
\* raises nothing whatever its value, and a policy with only such a condition
\* matches.
C7_UnknownOperatorIsSkipped ==
    m_result # "none" =>
        \A i \in 1..Len(MConditions) :
            (UnknownOperator(MConditions[i]) /\ KeyPresent(MConditions[i])) =>
                /\ m_result = matches(WithoutCondition(i), m_signals)
                /\ Len(MConditions) = 1 => m_result = "True"
                /\ (\A j \in 1..Len(MConditions) : j # i => WellTyped(MConditions[j]))
                     => m_result # "TypeError"

\* An unknown operator with a value of another type than the signal, before
\* a satisfied condition.
C7_Witness ==
    /\ m_result = "True"
    /\ Len(MConditions) = 2
    /\ UnknownOperator(MConditions[1]) /\ KeyPresent(MConditions[1])
    /\ MConditions[1].key = "error_budget_pct"
    /\ TargetOf(MConditions[1]).t = "str"
    /\ KnownOperator(MConditions[2]) /\ Satisfied(MConditions[2])

----------------------------------------------------------------------------
(* Claims about SLOEngine.evaluate, checked under SloSpec *)

SloDone == slo_result # NoSloResult
SloOk == slo_result.status = "ok"

\* C8: for total_requests > 0, whatever failed_requests and the target are,
\* 0 <= availability_pct <= 100 and 0 <= error_budget_pct <= 100.
C8_PercentagesInRange ==
    (SloOk /\ slo_metrics.total_requests > 0) =>
        /\ 0 <= slo_result.availability_pct
        /\ slo_result.availability_pct <= Micro(100)
        /\ 0 <= slo_result.error_budget_pct
        /\ slo_result.error_budget_pct <= 10000

\* 1000 requests with failed_requests -1 on a 99.9 target: availability
\* 100.1 and error budget 200.0.
C8_Witness ==
    /\ SloOk
    /\ slo_metrics.total_requests = 1000
    /\ slo_metrics.failed_requests = -1
    /\ slo_config.slos.availability.target = 99900000
    /\ slo_result.availability_pct = 100100000
    /\ slo_result.error_budget_pct = 20000

RecentSamples ==
    LET h == slo_metrics.hourly_burn_rate IN
    {i \in 1..Len(h) : i > Len(h) - 3}

RECURSIVE SumOver(_, _)
SumOver(h, I) ==
    IF I = {} THEN 0
    ELSE LET i == CHOOSE x \in I : TRUE IN h[i] + SumOver(h, I \ {i})

\* recent_burn >= thr, thr in tenths.
RecentBurnAtLeast(thr) ==
    SumOver(slo_metrics.hourly_burn_rate, RecentSamples) >= thr * Cardinality(RecentSamples)

ConfiguredThreshold(name, default) ==
    IF "burn_rate" \in DOMAIN slo_config /\ name \in DOMAIN slo_config.burn_rate.thresholds
    THEN slo_config.burn_rate.thresholds[name] ELSE default

Recovering ==
    /\ slo_config.slos.availability.target = 99900000
    /\ "burn_rate" \in DOMAIN slo_config
    /\ slo_metrics.total_requests = 2592000
    /\ slo_metrics.failed_requests = 2100
    /\ slo_metrics.latency_percentiles.p95_ms = 480
    /\ slo_metrics.hourly_burn_rate = RecoveringSeries

\* C11: in the recovering scenario (about 19 % of the budget left, the last
\* three burn samples below 1.0) the burn label is 'low', not 'high', so that
\* the gate delays (P005) and does not block (P002).
C11_RecoveringLabelLow ==
    (SloDone /\ Recovering) => (SloOk /\ slo_result.burn_rate = "low")

\* What evaluate() returns there: budget 18.98, recent burn 0.87, label high.
C11_Witness ==
    /\ SloOk /\ Recovering
    /\ slo_result.error_budget_pct = 1898
    /\ slo_result.burn_rate_value = 87
    /\ slo_result.burn_rate = "high"

----------------------------------------------------------------------------
(* Claims about CostCollector.evaluate, checked under CostSpec *)

CostDone == cost_result # NoCostResult
CostOk == cost_result.status = "ok"

Observations == {cost_data.daily_costs[i] : i \in DOMAIN cost_data.daily_costs}
DistinctDates ==
    \A i, j \in DOMAIN cost_data.daily_costs :
        i # j => cost_data.daily_costs[i].date # cost_data.daily_costs[j].date

\* The costs in date order, for observations of distinct dates: the i-th is
\* that of the observation with i - 1 earlier ones.
AmountsByDate ==
    [i \in 1..Len(cost_data.daily_costs) |->
        (CHOOSE o \in Observations :
            Cardinality({e \in Observations : e.date < o.date}) = i - 1).cost]

NDays == Len(cost_data.daily_costs)
FirstHalf == SubSeq(AmountsByDate, 1, NDays \div 2)
SecondHalf == SubSeq(AmountsByDate, (NDays \div 2) + 1, NDays)
LastDays(k) == SubSeq(AmountsByDate, Max(1, NDays - k + 1), NDays)
MeanUsd(w) == IF w = <<>> THEN 0 ELSE Round(Sum(w), Len(w), 0)
PositiveCosts == \A o \in Observations : o.cost > 0

\* C13: with fewer than 14 observations evaluate() does not fail and
\* compares the two halves of the date-sorted series: the previous window
\* is the first half and the current window the second half (disjoint, and
\* together the whole series).  Stated for series of positive costs.
C13_ShortSeriesSplitInHalf ==
    (CostDone /\ NDays < 14 /\ PositiveCosts) =>
        /\ CostOk
        /\ cost_result.previous_week_avg_usd = MeanUsd(FirstHalf)
        /\ cost_result.current_week_avg_usd = MeanUsd(SecondHalf)

\* Eight days, four at 9.60 and four at 12.48: the current window is the
\* last seven days, three of which are in the first half.
C13_Witness ==
    /\ CostOk
    /\ AmountsByDate = <<960, 960, 960, 960, 1248, 1248, 1248, 1248>>
    /\ cost_result.previous_week_avg_usd = 960
    /\ cost_result.current_week_avg_usd = MeanUsd(LastDays(7))
    /\ cost_result.current_week_avg_usd = 1125
    /\ MeanUsd(SecondHalf) = 1248

\* The windows compared: days [-14, -7) and [-7, end) of the date-sorted
\* series, the first half below 14 days, the second half below 7.
PrevWindow ==
    IF NDays >= 14 THEN SubSeq(AmountsByDate, NDays - 13, NDays - 7)
    ELSE FirstHalf
CurrWindow == IF NDays >= 7 THEN LastDays(7) ELSE SecondHalf

Budget ==
    IF "budget_usd_monthly" \in DOMAIN cost_data
    THEN cost_data.budget_usd_monthly ELSE 0

\* C14: evaluate() never fails on a zero denominator: wow_change_pct is 0.0
\* when the previous window is empty or its mean is not positive, the mean
\* of an empty window is 0.0, and budget_utilisation_pct is 0.0 when the
\* monthly budget is not positive.
C14_NoZeroDenominator ==
    CostDone =>
        /\ CostOk
        /\ (PrevWindow = <<>> \/ Sum(PrevWindow) <= 0) =>
               cost_result.wow_change_pct = 0
        /\ PrevWindow = <<>> => cost_result.previous_week_avg_usd = 0
        /\ CurrWindow = <<>> => cost_result.current_week_avg_usd = 0
        /\ Budget <= 0 => cost_result.budget_utilisation_pct = 0

\* A previous window of credits (mean below zero), a current window of
\* costs, and no budget.
C14_Witness ==
    /\ CostOk
    /\ PrevWindow # <<>> /\ Sum(PrevWindow) < 0
    /\ Sum(CurrWindow) > 0
    /\ Budget = 0
    /\ cost_result.wow_change_pct = 0
    /\ cost_result.budget_utilisation_pct = 0
    /\ cost_result.current_week_avg_usd > 0

\* C15: the trend is that of the first satisfied rule: wow_change_pct >=
\* block threshold gives spiking; else >= warn threshold gives rising; else
\* <= -10 gives falling; else stable.  spike_detected is true iff
\* wow_change_pct >= warn threshold.
C15_TrendFirstRule ==
    CostOk =>
        LET wow == cost_result.wow_change_pct
            label == cost_result.trend
            r1 == wow >= cost_env.block
            r2 == wow >= cost_env.warn
            r3 == wow <= -1000
        IN  /\ label = "spiking" <=> r1
            /\ label = "rising" <=> (~r1 /\ r2)
            /\ label = "falling" <=> (~r1 /\ ~r2 /\ r3)
            /\ label = "stable" <=> (~r1 /\ ~r2 /\ ~r3)
            /\ cost_result.spike_detected <=> r2

\* A rise of exactly 30 % under the default thresholds is spiking.
C15_Witness ==
    /\ CostOk
    /\ cost_env = [warn |-> 2000, block |-> 3000]
    /\ cost_result.wow_change_pct = 3000
    /\ cost_result.trend = "spiking"
    /\ cost_result.spike_detected

\* C16: whatever the configured warn and block thresholds, a spiking trend
\* has spike_detected, a rising trend has spike_detected, and
\* spike_detected means the trend is rising or spiking.
C16_TrendAgreesWithSpike ==
    CostOk =>
        /\ cost_result.trend = "spiking" => cost_result.spike_detected
        /\ cost_result.trend = "rising" => cost_result.spike_detected
        /\ cost_result.spike_detected =>
               cost_result.trend \in {"rising", "spiking"}

\* COST_WARN_PCT 30 above COST_BLOCK_PCT 20: a rise of 20 % is spiking
\* and no spike is detected.
C16_Witness ==
    /\ CostOk
    /\ cost_env = [warn |-> 3000, block |-> 2000]
    /\ cost_result.wow_change_pct = 2000
    /\ cost_result.trend = "spiking"
    /\ ~cost_result.spike_detected

\* The observations in date order, for distinct dates.
ObservationsByDate ==
    [i \in 1..Len(cost_data.daily_costs) |->
        CHOOSE o \in Observations :
            Cardinality({e \in Observations : e.date < o.date}) = i - 1]

\* The same file with its observations in the order q.
Reordered(q) == [cost_data EXCEPT !.daily_costs = q]

Figures(r) ==
    <<r.current_week_avg_usd, r.previous_week_avg_usd, r.wow_change_pct,
      r.trend, r.spike_detected, r.mtd_spend_usd, r.budget_utilisation_pct>>

\* C17: evaluate() sorts by date itself: for observations of distinct dates
\* given in any order, the window averages, wow_change_pct, trend,
\* spike_detected, mtd_spend_usd and budget_utilisation_pct are those of
\* the same observations given in date order.
C17_OrderOfObservationsIrrelevant ==
    (CostDone /\ DistinctDates) =>
        /\ CostOk
        /\ Figures(cost_result) =
              Figures(CostCollector_evaluate(Reordered(ObservationsByDate), cost_env))

\* Three observations given latest first: as given the change would be a
\* fall, in date order it is a rise of 30 %.
C17_Witness ==
    /\ CostOk
    /\ cost_data.daily_costs = <<Obs(3, 1248), Obs(2, 1248), Obs(1, 960)>>
    /\ cost_result.previous_week_avg_usd = 960
    /\ cost_result.current_week_avg_usd = 1248
    /\ cost_result.wow_change_pct = 3000

\* A strictly increasing series of SeriesDays days, of positive costs, whose
\* final 9 days are each at least 40 % above the last day before them,
\* evaluated under the default thresholds.
SpikingMonth ==
    /\ NDays = SeriesDays
    /\ PositiveCosts
    /\ \A i, j \in 1..NDays : i < j => AmountsByDate[i] < AmountsByDate[j]
    /\ \A i \in (NDays - 8)..NDays :
           10 * AmountsByDate[i] >= 14 * AmountsByDate[NDays - 9]
    /\ cost_env = [warn |-> 2000, block |-> 3000]

\* C18 as stated: such a series is spiking, with spike_detected and a
\* current week average above the previous one.
C18_JumpIsSpiking ==
    (CostDone /\ SpikingMonth) =>
        /\ CostOk
        /\ cost_result.trend = "spiking"
        /\ cost_result.spike_detected
        /\ cost_result.current_week_avg_usd > cost_result.previous_week_avg_usd

\* C18 amended: such a series has spike_detected, a current week average
\* above the previous one and a trend of rising or spiking: spiking when
\* wow_change_pct >= 30, rising below that.  The previous week holds two
\* days of the jump, so the change can be as low as 25.64 %.
C18_JumpIsRisingOrSpiking ==
    (CostDone /\ SpikingMonth) =>
        /\ CostOk
        /\ cost_result.wow_change_pct >= 2564
        /\ cost_result.trend = (IF cost_result.wow_change_pct >= 3000
                                THEN "spiking" ELSE "rising")
        /\ cost_result.spike_detected
        /\ cost_result.current_week_avg_usd > cost_result.previous_week_avg_usd

\* A jump of 41 % on a nearly flat series: the change is 26.23 %, rising.
C18_Witness ==
    /\ CostOk /\ SpikingMonth
    /\ cost_data.daily_costs = MonthSeries(10000, 1, 14100, 1)
    /\ cost_result.previous_week_avg_usd = 11190
    /\ cost_result.current_week_avg_usd = 14126
    /\ cost_result.wow_change_pct = 2623
    /\ cost_result.trend = "rising"
    /\ cost_result.spike_detected

----------------------------------------------------------------------------
(* Claims about the gate, checked under GateSpec *)

\* The metrics and the target of the end-to-end scenario, as the engine
\* loaded them.
CriticalScenario ==
    /\ slo_metrics.total_requests = 1000000
    /\ slo_metrics.failed_requests = 950
    /\ slo_config.slos.availability.target = 99900000

\* The rule of first priority blocks on error_budget_pct < 10.
FirstRuleBlocksOnLowBudget ==
    /\ policies # <<>>
    /\ policies[1].action = "BLOCK"
    /\ policies[1].conditions = <<BudgetLow>>

\* C12: with 950 failures in 1,000,000 requests and target 99.9, whatever the
\* hourly burn series, and a ruleset whose first-priority rule blocks on
\* error_budget_pct < 10, every evaluate() returns a decision with
\* availability 99.905, error budget 5.0, burn rate 'critical' and action
\* BLOCK, and main() exits with code 2.
C12_CriticalScenarioBlocks ==
    (CriticalScenario /\ FirstRuleBlocksOnLowBudget /\ decision # NoDecision)
    => /\ decision.status = "ok"
       /\ decision.slo.availability_pct = 99905000
       /\ decision.slo.error_budget_pct = 500
       /\ decision.slo.burn_rate = "critical"
       /\ decision.action = "BLOCK"
       /\ exit_status # NoExit => exit_status = 2

\* The scenario over an empty hourly series: evaluate() has been called and
\* has raised.
C12_Witness ==
    /\ CriticalScenario
    /\ FirstRuleBlocksOnLowBudget
    /\ slo_metrics.hourly_burn_rate = <<>>
    /\ decision = [status |-> "ZeroDivisionError"]

\* What the instances hold of their inputs.
LoadedState == <<policies, slo_config, slo_metrics, cost_data>>

\* The step is a call of the named method.
Called(name) == calls' = Append(calls, name)

\* C19: every evaluate() or report() call on the three instances leaves
\* their loaded policies, SLO configuration, metrics and cost data as they
\* were; a call on an instance returns what the earlier calls on it
\* returned, report() formats what evaluate() returned, and the exit code
\* of main() is that of the decision its report shows.
C19_EvaluationIsStateless ==
    [][/\ (calls' # calls /\ calls' # <<>>) => LoadedState' = LoadedState
       /\ (Called("DecisionEngine.evaluate") /\ decision # NoDecision)
             => decision' = decision
       /\ (Called("DecisionEngine.evaluate") /\ reported # NoDecision)
             => decision' = reported
       /\ (Called("DecisionEngine.report") /\ decision # NoDecision)
             => reported' = decision
       /\ (Called("DecisionEngine.report") /\ reported # NoDecision)
             => reported' = reported
       /\ (Called("SLOEngine.evaluate") /\ slo_result # NoSloResult)
             => slo_result' = slo_result
       /\ (Called("CostCollector.evaluate") /\ cost_result # NoCostResult)
             => cost_result' = cost_result
       /\ exit_status' # NoExit
             => /\ reported' = decision'
                /\ exit_status' = exit_code(reported'.action)
      ]_vars

\* main() has evaluated, reported and exited, while metrics.json was
\* rewritten after the engine was constructed.
C19_Witness ==
    /\ calls = <<"DecisionEngine.evaluate", "DecisionEngine.report">>
    /\ metrics_file # slo_metrics
    /\ decision.status = "ok"
    /\ reported = decision
    /\ exit_status = exit_code(decision.action)

\* What a decision engine gives over the inputs as they are stored now, and
\* over the inputs as they were stored when the instances were constructed.
StoredResult ==
    engine_evaluate(load_policies(policies_yaml), slo_config, metrics_file,
                    cost_file, cost_env)
LoadedResult ==
    engine_evaluate(load_policies(loaded_at.policies), slo_config,
                    loaded_at.metrics, loaded_at.cost, cost_env)

\* C20 as stated: a second evaluate() on an engine instance returns what the
\* stored telemetry, cost data and policies give at the time of that call
\* (the first call returned a decision, and no stored series is empty).
C20_SecondCallReadsStoredInputs ==
    [][(/\ Called("DecisionEngine.evaluate")
        /\ decision.status = "ok"
        /\ metrics_file.hourly_burn_rate # <<>>)
          => decision' = StoredResult]_vars

\* C20, amended: every result an instance has returned is computed from the
\* inputs as they were stored when the instance was constructed, whatever
\* has been stored since.
C20_ResultOfInputsAtConstruction ==
    /\ decision # NoDecision => decision = LoadedResult
    /\ reported # NoDecision => reported = LoadedResult
    /\ slo_result # NoSloResult
          => slo_result = SLOEngine_evaluate(slo_config, loaded_at.metrics)
    /\ cost_result # NoCostResult
          => cost_result = CostCollector_evaluate(loaded_at.cost, cost_env)

\* evaluate() was called twice on one instance, the stored inputs changed
\* after its construction, and the decision is not the one they give now.
C20_Witness ==
    /\ calls = <<"DecisionEngine.evaluate", "DecisionEngine.evaluate">>
    /\ loaded_at # StoredInputs
    /\ decision.status = "ok"
    /\ decision = LoadedResult
    /\ decision # StoredResult

----------------------------------------------------------------------------
(* Claims about SLOEngine.evaluate over incomplete metrics, checked under  *)
(* SloPartialSpec                                                           *)

\* The metrics lack total_requests, failed_requests,
\* latency_percentiles.p95_ms or latency_percentiles.p99_ms.
LacksRequiredField ==
    \/ "total_requests" \notin DOMAIN slo_metrics
    \/ "failed_requests" \notin DOMAIN slo_metrics
    \/ "latency_percentiles" \notin DOMAIN slo_metrics
    \/ "p95_ms" \notin DOMAIN slo_metrics.latency_percentiles
    \/ "p99_ms" \notin DOMAIN slo_metrics.latency_percentiles

\* C25: a metrics input lacking total_requests, failed_requests,
\* latency_percentiles.p95_ms or latency_percentiles.p99_ms makes evaluate()
\* fail with an error: it returns no result.
C25_MissingRequiredFieldIsFatal ==
    (SloDone /\ LacksRequiredField) => slo_result.status # "ok"

\* latency_percentiles holds p95_ms 700 and neither p99_ms nor p99:
\* evaluate() returns a result whose latency_p99_ms is the p95 value.
C25_Witness ==
    /\ SloOk
    /\ DOMAIN slo_metrics.latency_percentiles = {"p50_ms", "p95_ms"}
    /\ slo_result.latency_p95_ms = 700
    /\ slo_result.latency_p99_ms = 700

----------------------------------------------------------------------------
(* Further claims about SLOEngine.evaluate, checked under SloSpec *)

\* C26: for every hourly_burn_rate series of fewer than 3 samples evaluate()
\* returns a result, whose burn_rate_value is the mean of the samples that
\* exist; with 3 samples or more it is the mean of the last 3.
C26_ShortSeriesIsNotFatal ==
    SloDone =>
        /\ SloOk
        /\ slo_result.burn_rate_value =
              Round(SumOver(slo_metrics.hourly_burn_rate, RecentSamples),
                    Cardinality(RecentSamples), 1)

\* The empty series: evaluate() was called and raised ZeroDivisionError.
C26_Witness ==
    /\ slo_metrics.hourly_burn_rate = <<>>
    /\ slo_result = [status |-> "ZeroDivisionError"]

C29_NonCompliantMeansExhausted ==
    (/\ SloOk
     /\ slo_metrics.total_requests > 0
     /\ slo_config.slos.availability.target > 0
     /\ slo_config.slos.availability.target <= Micro(100)
     /\ ~slo_result.availability_compliant)
    => /\ slo_result.error_budget_pct = 0
       /\ slo_result.burn_rate = "critical"
       /\ ~healthy(slo_result)

\* Availability 99.79 on a 99.9 target, with a calm hourly series and a
\* latency within its limit.
C29_Witness ==
    /\ SloOk
    /\ slo_config.slos.availability.target = 99900000
    /\ slo_metrics.total_requests = 1000000
    /\ slo_metrics.failed_requests = 2100
    /\ slo_result.burn_rate_value = 50
    /\ slo_result.latency_compliant
    /\ ~slo_result.availability_compliant
    /\ slo_result.error_budget_pct = 0
    /\ slo_result.burn_rate = "critical"

----------------------------------------------------------------------------
(* Claims about results changed by their callers, checked under AliasSpec *)

\* C27: a later evaluate() on an engine returns what the engine returned
\* before, whatever the caller has done to the returned result: its
\* details["hourly_burn_rates"], its details["cost_breakdown"], the entries
\* of its daily_costs.
C27_ResultSharesNothing ==
    /\ later.slo # NoSloResult => later.slo = returned.slo
    /\ later.cost # NoCostResult => later.cost = returned.cost

\* The caller appended a sample of 12.0 to the hourly_burn_rates of a result
\* labelled low; the next evaluate() on the engine says medium.
C27_Witness ==
    /\ returned.slo.status = "ok"
    /\ returned.slo.burn_rate = "low"
    /\ slo_result.details.hourly_burn_rates =
          Append(returned.slo.details.hourly_burn_rates, 120)
    /\ later.slo.status = "ok"
    /\ later.slo.burn_rate = "medium"

----------------------------------------------------------------------------
(* Claims about AuditLog, checked under AuditSpec and AuditConcurrentSpec *)

\* The step in which read_today() returns.
ReadReturns == read_result = NotRead /\ read_result' # NotRead

IsPrefix(a, b) == Len(a) <= Len(b) /\ SubSeq(b, 1, Len(a)) = a

\* C21: the audit log is append-only.  No step removes a log file or changes
\* what it already holds; a read_today() made on the day on which the n
\* write() calls so far were made, into a directory that was empty, returns
\* n records, in the order of the writes, each with a timestamp and every
\* key of the written result's to_dict() with its value; and read_today()
\* on a day without a log file returns [] and creates no file.
C21_AuditLogIsAppendOnly ==
    [][/\ \A d \in Days :
             audit_files[d].exists =>
                /\ audit_files'[d].exists
                /\ IsPrefix(audit_files[d].pieces, audit_files'[d].pieces)
       /\ (ReadReturns /\ utc_day = FirstDay) =>
             /\ read_result'.status = "ok"
             /\ Len(read_result'.records) = Len(written)
             /\ \A i \in 1..Len(written) :
                   LET record == read_result'.records[i] IN
                   /\ "timestamp" \in DOMAIN record
                   /\ \A k \in DOMAIN written[i].result :
                         /\ k \in DOMAIN record
                         /\ record[k] = written[i].result[k]
       /\ (ReadReturns /\ ~audit_files[utc_day].exists) =>
             /\ read_result' = [status |-> "ok", records |-> <<>>]
             /\ audit_files' = audit_files]_vars

\* Two write() calls of different results, read back on the same day.
C21_Witness ==
    /\ utc_day = FirstDay
    /\ Len(written) = 2
    /\ read_result.status = "ok"
    /\ Len(read_result.records) = 2
    /\ read_result.records[1].action # read_result.records[2].action

\* C30: every record in the file decisions-D.jsonl has a timestamp whose UTC
\* date is D, also when midnight passes during the write() that appended
\* it; so the records read_today() returns are all of the current UTC day.
C30_RecordDateIsFileDate ==
    /\ \A d \in Days :
          \A i \in DOMAIN audit_files[d].pieces :
             audit_files[d].pieces[i].record.timestamp = d
    /\ \A i \in 1..Len(written) : written[i].record.timestamp = written[i].path

\* A write() during which midnight passed has returned, and read_today()
\* of the new day has returned its record.
C30_Witness ==
    /\ \E i \in 1..Len(written) : written[i].record.timestamp # written[i].path
    /\ utc_day = LastDay
    /\ read_result.status = "ok"
    /\ read_result.records # <<>>

\* The lines of all log files.
LinesOf(d) == LinesFrom(audit_files[d].pieces, 1, <<>>, <<>>)

Quiescent == \A w \in threads : audit_thread[w].pc = "idle"

RECURSIVE LineCount(_)
LineCount(S) ==
    IF S = {} THEN 0
    ELSE LET d == CHOOSE x \in S : TRUE IN
         Len(LinesOf(d)) + LineCount(S \ {d})

\* C22: concurrent writers of a daily log are serialized.  Once the write()
\* calls of all threads have returned, every line of every log file is one
\* complete record and the files hold one line per write(); a read_today()
\* that returned was able to parse every line.
C22_WritersAreSerialized ==
    /\ Quiescent =>
          /\ \A d \in Days :
                \A i \in DOMAIN LinesOf(d) : line_parses(LinesOf(d)[i])
          /\ LineCount(Days) = Len(written)
    /\ read_result.status # "JSONDecodeError"

\* Two threads have written to the same file at the same time: the line of
\* one began, the other wrote, and both write() calls have returned.
C22_Witness ==
    /\ Quiescent
    /\ Len(written) = 2
    /\ \E d \in Days :
          /\ Len(audit_files[d].pieces) >= 3
          /\ audit_files[d].pieces[1].part = "head"
          /\ audit_files[d].pieces[2].part # "tail"

----------------------------------------------------------------------------
(* Claims about api_simulate, checked under SimulateSpec *)

\* C23: when the audit write fails after a decision was computed, the
\* response reports the failure and still carries the decision.
C23_WriteFailureKeepsDecision ==
    \A i \in 1..Len(handled) :
       (handled[i].result.status = "ok" /\ ~handled[i].writable) =>
          /\ "error" \in DOMAIN handled[i].response
          /\ "data" \in DOMAIN handled[i].response
          /\ handled[i].response.data.action = handled[i].result.action

\* A request whose decision was computed while the audit log could not be
\* written.
C23_Witness ==
    \E i \in 1..Len(handled) :
       /\ handled[i].result.status = "ok"
       /\ ~handled[i].writable
       /\ handled[i].response.code = 500

\* The signals with the overrides of a request body applied.
Overridden(signals, body) ==
    [k \in DOMAIN signals |->
        IF k \in DOMAIN body /\ body[k] # None THEN body[k] ELSE signals[k]]

\* The action the policies yield for a signal map.
ActionFor(pols, signals) ==
    LET st == PolicyLoop(pols, signals, 1,
                 [evaluated |-> <<>>, matched_policy |-> 0, raised |-> FALSE])
    IN  IF st.matched_policy = 0 THEN FallbackPolicy.action
        ELSE pols[st.matched_policy].action

\* C24: the decision POST /api/simulate returns, and writes to the audit
\* log, is the one the policies yield for the signals with the overrides of
\* the request body applied.
C24_OverridesAreApplied ==
    \A i \in 1..Len(handled) :
       handled[i].response.code = 200 =>
          handled[i].response.data.action =
             ActionFor(load_policies(policies_yaml),
                       Overridden(collect_signals(handled[i].result.slo,
                                                  handled[i].result.cost),
                                  handled[i].body))

\* Two requests over the same stored inputs whose bodies override
\* error_budget_pct to 5 and to 80, where a policy blocks on a budget under
\* 10: both were answered with a decision, and both decisions were written.
C24_Witness ==
    /\ Len(handled) = 2
    /\ Len(audit_trail) = 2
    /\ handled[1].body.error_budget_pct = Num(500)
    /\ handled[2].body.error_budget_pct = Num(8000)
    /\ handled[1].body.burn_rate = None
    /\ handled[2].body.burn_rate = None
    /\ handled[1].response.code = 200
    /\ handled[1].response = handled[2].response

====
